---- MODULE Spec2Model ----
(***************************************************************************)
(* Model of the background task registry of code-chatter                   *)
(* (backend/app/services/background_tasks.py), of the file-batch unit of   *)
(* work scheduled by the upload endpoint                                   *)
(* (backend/app/api/v1/endpoints/data_processing.py) and of the batch      *)
(* runner (backend/app/services/document_processor.py).                    *)
(*                                                                         *)
(* The registry runs on one asyncio event loop: a step of a coroutine from *)
(* one suspension point to the next is atomic, so every action below is    *)
(* one such step (or one synchronous registry call).                       *)
(***************************************************************************)
EXTENDS Integers, Sequences, FiniteSets, TLC

\* ---------------------------------------------------------------- bounds
MaxTasks == 2
MaxConcurrentTasks == 1
MaxTime == 2
MaxFiles == 3
MaxConcurrentFiles == 2
MaxCalls == 2
MaxRepoOps == 2
MaxItems == 3
MaxQueued == 3
MaxUploads == 1
\* _cleanup_interval, in clock ticks of 3600 seconds
CleanupInterval == 1

\* ---------------------------------------------------------------- values
None == <<>>
Some(x) == <<x>>

PENDING == "pending"
RUNNING == "running"
COMPLETED == "completed"
FAILED == "failed"
CANCELLED == "cancelled"
TaskStatus == {PENDING, RUNNING, COMPLETED, FAILED, CANCELLED}
Terminal == {COMPLETED, FAILED, CANCELLED}

\* values a generic unit of work may return, texts of the exceptions it may raise
Values == {"v"}
Errors == {"boom"}
\* text of the HTTPException raised by the file processor
SaveError == "400: No files saved for processing"
BatchError == "500: Processing failed"

TaskIds == 1..MaxTasks

VARIABLES
    tasks,            \* BackgroundTaskService._tasks: id -> BackgroundTask
    running_tasks,    \* BackgroundTaskService._running_tasks (its keys)
    semaphore_value,  \* BackgroundTaskService._semaphore._value
    semaphore_waiters,\* BackgroundTaskService._semaphore._waiters (FIFO)
    co,               \* per task: the asyncio.Task running _execute_task
    unit,             \* per task: the unit of work handed to create_task
    scratch,          \* scratch directories that exist on disk
    next_id,          \* number of ids handed out so far
    now,              \* datetime.now(), in ticks
    file_paths,       \* process_files_concurrent: its argument
    child,            \* per path: the task gather runs process_with_semaphore in
    file_semaphore,   \* the semaphore of the call: [value, waiters]
    results,          \* per path: what its task resolved to (None: not yet)
    batch,            \* the call itself: position, tallies, returned value
    vector_store,     \* the lists of documents handed to store_documents
    calls,            \* per caller: its call of process_files_concurrent
    executor,         \* DocumentProcessingService._executor: the jobs on a thread
    clone_lock,       \* RepositoryService._clone_lock: [locked, waiters]
    repo_ops,         \* per caller: its call of a RepositoryService method
    repo_tree,        \* the repository scratch trees that exist on disk
    upload,           \* POST /process-files: the request being served
    reply             \* the last answer an endpoint gave

registry_vars == <<tasks, running_tasks, semaphore_value, semaphore_waiters, co,
                   unit, scratch, next_id, now>>
batch_vars == <<file_paths, child, file_semaphore, results, batch, vector_store>>
calls_vars == <<calls, executor>>
gate_vars == <<clone_lock, repo_ops, repo_tree>>
router_vars == <<upload, reply>>
other_vars == <<calls_vars, gate_vars>>
vars == <<registry_vars, batch_vars, other_vars, router_vars>>

\* a record that create_task already marks as started
NewTaskRunning ==
    [status |-> "running", started_at |-> <<0>>, completed_at |-> <<>>,
     progress |-> 0, result |-> <<>>, error_message |-> <<>>]

\* BackgroundTask(...) as create_task builds it
NewTask ==
    [status |-> PENDING, started_at |-> None, completed_at |-> None,
     progress |-> 0, result |-> None, error_message |-> None]

\* the asyncio.Task as asyncio.create_task leaves it: scheduled, not started
NewCoroutine ==
    [pc |-> "created", fut |-> "none", must_cancel |-> FALSE,
     exit |-> "none", exc |-> None]

\* a unit of work: a generic coroutine function, or _bg_worker with its arguments
GenericUnits == [kind : {"generic"}, coop : BOOLEAN, items : {FALSE},
                 paths : {FALSE}, work_dir : {FALSE}]
FileUnits ==
    {u \in [kind : {"files"}, coop : {TRUE}, items : BOOLEAN,
            paths : BOOLEAN, work_dir : BOOLEAN] :
        /\ u.items \/ u.paths
        /\ u.paths => u.work_dir}

WorkDir(t) == <<"work", t>>
BytesDir(t) == <<"bytes", t>>

\* what a path names: a text file splitting into one or two chunks, a file
\* without a text extension, a file over the size limit, a file whose load
\* fails or yields nothing, a file whose split raises
FileKinds == {"text", "text2", "nontext", "toolarge", "unreadable", "error"}
TextKinds == {"text", "text2"}

NoBatch == [pc |-> "idle"]

\* no call of the batch runner, no repository call, no request
OtherInit ==
    /\ calls = <<>>
    /\ executor = {}
    /\ clone_lock = [locked |-> FALSE, waiters |-> <<>>]
    /\ repo_ops = <<>>
    /\ repo_tree = {}
    /\ upload = [pc |-> "idle"]
    /\ reply = None

RegistryInit ==
    /\ tasks = <<>>
    /\ running_tasks = {}
    /\ semaphore_value = MaxConcurrentTasks
    /\ semaphore_waiters = <<>>
    /\ co = <<>>
    /\ unit = <<>>
    /\ scratch = {}
    /\ next_id = 0
    /\ now = 0

Init ==
    /\ RegistryInit
    /\ file_paths = <<>>
    /\ child = <<>>
    /\ file_semaphore = [value |-> 0, waiters |-> <<>>]
    /\ results = <<>>
    /\ batch = NoBatch
    /\ vector_store = <<>>
    /\ OtherInit

\* ------------------------------------------------- asyncio.Semaphore
\* the last waiter of the deque whose future is not done (0: there is none)
LastPending(w, c) ==
    LET idx == {i \in 1..Len(w) : c[w[i]].fut = "pending"}
    IN  IF idx = {} THEN 0 ELSE w[CHOOSE i \in idx : \A j \in idx : i >= j]

\* the first waiter of the deque whose future is not done (0: there is none)
FirstPending(w, c) ==
    LET idx == {i \in 1..Len(w) : c[w[i]].fut = "pending"}
    IN  IF idx = {} THEN 0 ELSE w[CHOOSE i \in idx : \A j \in idx : i <= j]

\* Semaphore._wake_up_next that wakes the waiter without taking the slot for it
WakeUpNextKeepsValue(v, w, c) ==
    LET u == FirstPending(w, c)
    IN  [value |-> v, woken |-> u]

\* Semaphore._wake_up_next on counter v: hands a slot to the first pending waiter
WakeUpNext(v, w, c) ==
    LET u == FirstPending(w, c)
    IN  IF u = 0 THEN [value |-> v, woken |-> 0] ELSE [value |-> v - 1, woken |-> u]

\* Semaphore.release that gives the slot back to nobody
ReleaseLost(v, w, c) == [value |-> v, woken |-> 0]

\* Semaphore.release
Release(v, w, c) == WakeUpNext(v + 1, w, c)

\* Semaphore.locked that never reports the semaphore as taken
LockedNever(v, w, c) == FALSE

\* Semaphore.locked
Locked(v, w, c) == v = 0 \/ \E i \in 1..Len(w) : c[w[i]].fut # "cancelled"

\* the deque after `self._waiters.remove(fut)`
Remove(w, t) == SelectSeq(w, LAMBDA u : u # t)

\* the tasks c once the future of waiter `woken` (0: nobody) has its result set
Wake(c, woken) ==
    [j \in DOMAIN c |-> IF j = woken THEN [c[j] EXCEPT !.fut = "result"] ELSE c[j]]

\* ------------------------------------------------- _execute_task, record updates
\* lines 107-108 without the started_at assignment
StartedNoTimestamp(rec) == [rec EXCEPT !.status = RUNNING]

\* lines 107-108
Started(rec) == [rec EXCEPT !.status = RUNNING, !.started_at = Some(now)]

\* lines 116-118, without the result assignment of line 119
CompletedNoResult(rec, v) ==
    [rec EXCEPT !.status = COMPLETED, !.completed_at = Some(now), !.progress = 100]

\* lines 116-119
Completed(rec, v) ==
    [rec EXCEPT !.status = COMPLETED, !.completed_at = Some(now),
                !.progress = 100, !.result = v]

\* the CancelledError handler without its completed_at assignment
CancelledNoTimestamp(rec) == [rec EXCEPT !.status = CANCELLED]

\* lines 124-125
Cancelled(rec) == [rec EXCEPT !.status = CANCELLED, !.completed_at = Some(now)]

\* the Exception handler without its error_message assignment
FailedNoMessage(rec, e) ==
    [rec EXCEPT !.status = FAILED, !.completed_at = Some(now)]

\* lines 129-131
Failed(rec, e) ==
    [rec EXCEPT !.status = FAILED, !.completed_at = Some(now),
                !.error_message = Some(e)]

\* the suspension point a unit of work reaches when it is first called
FirstStage(u) ==
    IF u.kind = "generic" THEN "work"
    ELSE IF u.items THEN "bytes_save" ELSE "paths_batch"

WorkStages == {"work", "bytes_save", "bytes_batch", "paths_batch"}
BatchStages == {"bytes_batch", "paths_batch"}

\* co once task t's coroutine is in state c and the waiter `woken` (0: nobody)
\* has had the result of its future set
CoAfter(t, c, woken) == Wake([co EXCEPT ![t] = c], woken)

\* _bg_worker without the finally block that removes work_dir
CleanedBytesOnly(t, pc) ==
    IF unit[t].kind # "files" THEN {}
    ELSE IF pc \in {"bytes_save", "bytes_batch"} THEN {BytesDir(t)} ELSE {}

\* the directories the finally blocks of the unit of work of t remove when the
\* unit of work ends at stage pc
Cleaned(t, pc) ==
    IF unit[t].kind # "files" THEN {}
    ELSE (IF pc \in {"bytes_save", "bytes_batch"} THEN {BytesDir(t)} ELSE {})
         \cup {WorkDir(t)}

\* lines 105-113 writing the Running status to every Pending record
RunBodyAll(t, sem, w) ==
    /\ semaphore_value' = sem.value
    /\ semaphore_waiters' = w
    /\ tasks' = [u \in DOMAIN tasks |->
                    IF tasks[u].status = PENDING THEN Started(tasks[u]) ELSE tasks[u]]
    /\ co' = CoAfter(t, [co[t] EXCEPT !.pc = FirstStage(unit[t]), !.fut = "none"],
                     sem.woken)
    /\ scratch' = scratch \cup
          (IF unit[t].kind = "files" /\ unit[t].items THEN {BytesDir(t)} ELSE {})
    /\ UNCHANGED <<running_tasks, unit, next_id, now, batch_vars, other_vars, router_vars>>

\* lines 105-113: the slot is held (the semaphore is left as sem, w); the record
\* becomes Running and the unit of work runs up to its first suspension point
RunBody(t, sem, w) ==
    /\ semaphore_value' = sem.value
    /\ semaphore_waiters' = w
    /\ tasks' = [tasks EXCEPT ![t] = Started(@)]
    /\ co' = CoAfter(t, [co[t] EXCEPT !.pc = FirstStage(unit[t]), !.fut = "none"],
                     sem.woken)
    /\ scratch' = scratch \cup
          (IF unit[t].kind = "files" /\ unit[t].items THEN {BytesDir(t)} ELSE {})
    /\ UNCHANGED <<running_tasks, unit, next_id, now, batch_vars, other_vars, router_vars>>

\* _execute_task without the finally block that drops the live-task entry
EndTaskKeepsEntry(t, rec, sem, w, exit, exc, cleaned) ==
    /\ tasks' = [tasks EXCEPT ![t] = rec]
    /\ semaphore_value' = sem.value
    /\ semaphore_waiters' = w
    /\ co' = CoAfter(t, [pc |-> "done", fut |-> "none", must_cancel |-> FALSE,
                         exit |-> exit, exc |-> exc], sem.woken)
    /\ scratch' = scratch \ cleaned
    /\ UNCHANGED <<running_tasks, unit, next_id, now, batch_vars, other_vars, router_vars>>

\* lines 115-137: the coroutine of t ends with record rec, the semaphore left as
\* (sem, w); the finally block drops the live-task entry
EndTask(t, rec, sem, w, exit, exc, cleaned) ==
    /\ tasks' = [tasks EXCEPT ![t] = rec]
    /\ semaphore_value' = sem.value
    /\ semaphore_waiters' = w
    /\ co' = CoAfter(t, [pc |-> "done", fut |-> "none", must_cancel |-> FALSE,
                         exit |-> exit, exc |-> exc], sem.woken)
    /\ running_tasks' = running_tasks \ {t}
    /\ scratch' = scratch \ cleaned
    /\ UNCHANGED <<unit, next_id, now, batch_vars, other_vars, router_vars>>

Same == [value |-> semaphore_value, woken |-> 0]
Released == Release(semaphore_value, semaphore_waiters, co)

\* ------------------------------------------------- create_task
\* create_task without the _running_tasks assignment of line 81
CreateTaskBelowUntracked(u, max) ==
    /\ next_id < max
    /\ LET t == next_id + 1 IN
        /\ next_id' = t
        /\ tasks' = tasks @@ (t :> NewTask)
        /\ co' = co @@ (t :> NewCoroutine)
        /\ unit' = unit @@ (t :> u)
        /\ scratch' = scratch \cup (IF u.work_dir THEN {WorkDir(t)} ELSE {})
    /\ UNCHANGED <<running_tasks, semaphore_value, semaphore_waiters, now,
                   batch_vars, other_vars>>

\* create_task, for a registry that hands out at most `max` ids
CreateTaskBelow(u, max) ==
    /\ next_id < max
    /\ LET t == next_id + 1 IN
        /\ next_id' = t
        /\ tasks' = tasks @@ (t :> NewTask)
        /\ running_tasks' = running_tasks \cup {t}
        /\ co' = co @@ (t :> NewCoroutine)
        /\ unit' = unit @@ (t :> u)
        /\ scratch' = scratch \cup (IF u.work_dir THEN {WorkDir(t)} ELSE {})
    /\ UNCHANGED <<semaphore_value, semaphore_waiters, now, batch_vars, other_vars>>

CreateTask(u) == CreateTaskBelow(u, MaxTasks)

\* a caller of the registry submits a coroutine function of its own
SubmitGeneric == (\E u \in GenericUnits : CreateTask(u)) /\ UNCHANGED router_vars

\* POST /process-files: the router keeps items in memory or writes them under a
\* scratch directory, then schedules _bg_worker(items, paths, work_dir)
ProcessUploadedFiles == (\E u \in FileUnits : CreateTask(u)) /\ UNCHANGED router_vars

\* ------------------------------------------------- _execute_task, steps
\* first step of the coroutine
ExecuteTaskStart(t) ==
    /\ t \in DOMAIN co
    /\ co[t].pc = "created"
    /\ \/ /\ co[t].must_cancel
          \* CancelledError is thrown into the coroutine before its first
          \* statement: the body, its handlers and its finally block never run
          /\ co' = [co EXCEPT ![t] = [@ EXCEPT !.pc = "done", !.must_cancel = FALSE]]
          /\ UNCHANGED <<tasks, running_tasks, semaphore_value, semaphore_waiters,
                         unit, scratch, next_id, now, batch_vars, other_vars, router_vars>>
       \/ /\ ~co[t].must_cancel
          /\ ~Locked(semaphore_value, semaphore_waiters, co)
          /\ RunBody(t, [value |-> semaphore_value - 1, woken |-> 0],
                     semaphore_waiters)
       \/ /\ ~co[t].must_cancel
          /\ Locked(semaphore_value, semaphore_waiters, co)
          /\ semaphore_waiters' = Append(semaphore_waiters, t)
          /\ co' = [co EXCEPT ![t] = [@ EXCEPT !.pc = "sem_wait", !.fut = "pending"]]
          /\ UNCHANGED <<tasks, running_tasks, semaphore_value, unit, scratch,
                         next_id, now, batch_vars, other_vars, router_vars>>

\* the coroutine resumes inside Semaphore.acquire
AcquireResume(t) ==
    /\ t \in DOMAIN co
    /\ co[t].pc = "sem_wait"
    /\ LET w == Remove(semaphore_waiters, t) IN
       \/ /\ co[t].fut = "cancelled"
          /\ EndTask(t, Cancelled(tasks[t]), Same, w, "none", None, {})
       \/ /\ co[t].fut = "result"
          /\ co[t].must_cancel
          /\ EndTask(t, Cancelled(tasks[t]), WakeUpNext(semaphore_value + 1, w, co),
                     w, "none", None, {})
       \/ /\ co[t].fut = "result"
          /\ ~co[t].must_cancel
          /\ RunBody(t, IF semaphore_value > 0
                          THEN WakeUpNext(semaphore_value, w, co) ELSE Same, w)

\* a generic unit of work returns v
WorkReturn(t) ==
    /\ t \in DOMAIN co
    /\ co[t].pc = "work"
    /\ ~co[t].must_cancel
    /\ \E v \in Values :
          EndTask(t, Completed(tasks[t], Some(v)), Released, semaphore_waiters,
                  "returned", None, {})

\* a generic unit of work raises an exception with text e
WorkRaise(t) ==
    /\ t \in DOMAIN co
    /\ co[t].pc = "work"
    /\ ~co[t].must_cancel
    /\ \E e \in Errors :
          EndTask(t, Failed(tasks[t], e), Released, semaphore_waiters,
                  "raised", Some(e), {})

\* CancelledError is thrown into a generic unit of work at its suspension point
WorkCancelled(t) ==
    /\ t \in DOMAIN co
    /\ co[t].pc = "work"
    /\ co[t].must_cancel
    /\ \/ EndTask(t, Cancelled(tasks[t]), Released, semaphore_waiters,
                  "cancelled", None, {})
       \/ /\ ~unit[t].coop
          /\ \E v \in Values :
                EndTask(t, Completed(tasks[t], Some(v)), Released, semaphore_waiters,
                        "returned", None, {})
       \/ /\ ~unit[t].coop
          /\ \E e \in Errors :
                EndTask(t, Failed(tasks[t], e), Released, semaphore_waiters,
                        "raised", Some(e), {})
       \/ /\ ~unit[t].coop
          /\ co' = [co EXCEPT ![t] = [@ EXCEPT !.must_cancel = FALSE]]
          /\ UNCHANGED <<tasks, running_tasks, semaphore_value, semaphore_waiters,
                         unit, scratch, next_id, now, batch_vars, other_vars, router_vars>>

\* ------------------------------------------------- _bg_worker, steps
\* process_uploaded_file_bytes has written its items under its own directory:
\* it goes on to the batch runner, or raises when no item could be saved
BytesSaved(t) ==
    /\ t \in DOMAIN co
    /\ co[t].pc = "bytes_save"
    /\ ~co[t].must_cancel
    /\ \/ /\ co' = [co EXCEPT ![t] = [@ EXCEPT !.pc = "bytes_batch"]]
          /\ UNCHANGED <<tasks, running_tasks, semaphore_value, semaphore_waiters,
                         unit, scratch, next_id, now, batch_vars, other_vars, router_vars>>
       \/ EndTask(t, Failed(tasks[t], SaveError), Released, semaphore_waiters,
                  "raised", Some(SaveError), Cleaned(t, co[t].pc))

\* the batch runner returns to the file processor
BatchReturns(t) ==
    /\ t \in DOMAIN co
    /\ co[t].pc \in BatchStages
    /\ ~co[t].must_cancel
    /\ \/ /\ co[t].pc = "bytes_batch"
          /\ unit[t].paths
          /\ co' = [co EXCEPT ![t] = [@ EXCEPT !.pc = "paths_batch", !.fut = "none"]]
          /\ scratch' = scratch \ {BytesDir(t)}
          /\ UNCHANGED <<tasks, running_tasks, semaphore_value, semaphore_waiters,
                         unit, next_id, now, batch_vars, other_vars, router_vars>>
       \/ /\ co[t].pc = "bytes_batch" => ~unit[t].paths
          /\ EndTask(t, Completed(tasks[t], None), Released, semaphore_waiters,
                     "returned", None, Cleaned(t, co[t].pc))

\* _bg_worker that swallows an error of the in-memory items and goes on to the
\* items on disk
BatchRaisesGoesOn(t) ==
    /\ t \in DOMAIN co
    /\ co[t].pc \in BatchStages
    /\ ~co[t].must_cancel
    /\ IF co[t].pc = "bytes_batch" /\ unit[t].paths
       THEN /\ co' = [co EXCEPT ![t] = [@ EXCEPT !.pc = "paths_batch"]]
            /\ scratch' = scratch \ {BytesDir(t)}
            /\ UNCHANGED <<tasks, running_tasks, semaphore_value, semaphore_waiters,
                           unit, next_id, now, batch_vars, other_vars, router_vars>>
       ELSE EndTask(t, Failed(tasks[t], BatchError), Released, semaphore_waiters,
                    "raised", Some(BatchError), Cleaned(t, co[t].pc))

\* the batch runner raises: the file processor turns it into an HTTPException
BatchRaises(t) ==
    /\ t \in DOMAIN co
    /\ co[t].pc \in BatchStages
    /\ ~co[t].must_cancel
    /\ EndTask(t, Failed(tasks[t], BatchError), Released, semaphore_waiters,
               "raised", Some(BatchError), Cleaned(t, co[t].pc))

\* CancelledError is thrown into _bg_worker at its suspension point; no handler
\* of the worker, of the file processor or of the batch runner catches it
FilesCancelled(t) ==
    /\ t \in DOMAIN co
    /\ co[t].pc \in WorkStages \ {"work"}
    /\ co[t].must_cancel
    /\ EndTask(t, Cancelled(tasks[t]), Released, semaphore_waiters,
               "cancelled", None, Cleaned(t, co[t].pc))

\* ------------------------------------------------- registry calls
\* asyncio.Task.cancel on the task of t: cancels the future the task waits for,
\* or marks the task so that its next step throws CancelledError
TaskCancel(c) ==
    IF c.pc = "sem_wait" /\ c.fut = "pending"
    THEN [c EXCEPT !.fut = "cancelled"]
    ELSE [c EXCEPT !.must_cancel = TRUE]

\* cancel_task's answer: the id is live and its asyncio task is not done
CanCancel(t) == t \in running_tasks /\ co[t].pc # "done"

\* cancel_task that writes the Cancelled status itself
CancelTaskMarks(t) ==
    /\ CanCancel(t)
    /\ co' = [co EXCEPT ![t] = TaskCancel(@)]
    /\ tasks' = [tasks EXCEPT ![t] = Cancelled(@)]
    /\ UNCHANGED <<running_tasks, semaphore_value, semaphore_waiters,
                   unit, scratch, next_id, now, batch_vars, other_vars, router_vars>>

CancelTask(t) ==
    /\ CanCancel(t)
    /\ co' = [co EXCEPT ![t] = TaskCancel(@)]
    /\ UNCHANGED <<tasks, running_tasks, semaphore_value, semaphore_waiters,
                   unit, scratch, next_id, now, batch_vars, other_vars, router_vars>>

\* cancel_task on an id that is not live: returns False, changes nothing
CancelTaskRefused(t) ==
    /\ ~CanCancel(t)
    /\ UNCHANGED vars

\* what get_task_status returns
TaskStatusOf(t) == IF t \in DOMAIN tasks THEN Some(tasks[t]) ELSE None

\* get_task_status that marks the record it returns as fully progressed
GetTaskStatusTouches(t) ==
    /\ t \in DOMAIN tasks
    /\ tasks' = [tasks EXCEPT ![t].progress = 100]
    /\ UNCHANGED <<running_tasks, semaphore_value, semaphore_waiters, co, unit,
                   scratch, next_id, now, batch_vars, other_vars, router_vars>>

GetTaskStatus(t) ==
    /\ TaskStatusOf(t) \in {None} \cup {Some(r) : r \in {tasks[u] : u \in DOMAIN tasks}}
    /\ UNCHANGED vars

\* the ids get_all_tasks returns
AllTasks(include_completed) ==
    IF include_completed THEN DOMAIN tasks
    ELSE {t \in DOMAIN tasks : tasks[t].status \notin Terminal}

\* get_all_tasks that deletes the records its filter hides
GetAllTasksDrops(include_completed) ==
    /\ tasks' = [t \in AllTasks(include_completed) |-> tasks[t]]
    /\ UNCHANGED <<running_tasks, semaphore_value, semaphore_waiters, co, unit,
                   scratch, next_id, now, batch_vars, other_vars, router_vars>>

GetAllTasks(include_completed) ==
    /\ AllTasks(include_completed) \subseteq DOMAIN tasks
    /\ UNCHANGED vars

\* tasks_to_remove with >= for > in the age test
ExpiredAtWindow ==
    {t \in DOMAIN tasks :
        /\ tasks[t].status \in Terminal
        /\ tasks[t].completed_at # None
        /\ now - tasks[t].completed_at[1] >= CleanupInterval}

\* the ids cleanup_completed_tasks collects in tasks_to_remove
Expired ==
    {t \in DOMAIN tasks :
        /\ tasks[t].status \in Terminal
        /\ tasks[t].completed_at # None
        /\ now - tasks[t].completed_at[1] > CleanupInterval}

\* what cleanup_completed_tasks returns: len(tasks_to_remove)
CleanupReturn == Cardinality(Expired)

CleanupCompletedTasks ==
    /\ tasks' = [t \in DOMAIN tasks \ Expired |-> tasks[t]]
    /\ UNCHANGED <<running_tasks, semaphore_value, semaphore_waiters, co, unit,
                   scratch, next_id, now, batch_vars, other_vars, router_vars>>

\* time passes
Tick ==
    /\ now < MaxTime
    /\ now' = now + 1
    /\ UNCHANGED <<tasks, running_tasks, semaphore_value, semaphore_waiters, co,
                   unit, scratch, next_id, batch_vars, other_vars, router_vars>>

\* ------------------------------------------------- process_files_concurrent
\* the documents split_documents yields for path i: <<i, k>> is chunk k of path i
Documents(i) ==
    IF file_paths[i] = "text" THEN <<<<i, 1>>>>
    ELSE IF file_paths[i] = "text2" THEN <<<<i, 1>>, <<i, 2>>>>
    ELSE <<>>

\* FileProcessingResult
FileResult(i, ok, docs, msg) ==
    [file_path |-> i, success |-> ok, documents |-> docs, error_message |-> msg]

\* _process_single_file_async up to its first suspension point: None when it
\* goes on to load the file, else the result it returns at once
Validate(i) ==
    IF file_paths[i] = "nontext"
    THEN Some(FileResult(i, FALSE, <<>>, Some("Not a text file")))
    ELSE IF file_paths[i] = "toolarge"
    THEN Some(FileResult(i, FALSE, <<>>, Some("File exceeds limit")))
    ELSE None

\* _process_single_file_async without its `if not documents` check
LoadedUnchecked(i) == None

\* after the load: _load_document returns [] for a file it cannot read
Loaded(i) ==
    IF file_paths[i] = "unreadable"
    THEN Some(FileResult(i, FALSE, <<>>, Some("No content loaded from file")))
    ELSE None

\* the handler of lines 175-182 without the text of the exception
SplitNoMessage(i) ==
    IF file_paths[i] = "error"
    THEN FileResult(i, FALSE, <<>>, None)
    ELSE FileResult(i, TRUE, Documents(i), None)

\* after the split: the chunks, or the text of the exception the handler caught
Split(i) ==
    IF file_paths[i] = "error"
    THEN FileResult(i, FALSE, <<>>, Some("split failed"))
    ELSE FileResult(i, TRUE, Documents(i), None)

\* the loop of lines 230-245 over results[1..n], as (all_documents,
\* successful_files, failed_files)
RECURSIVE Collect(_, _)
Collect(rs, n) ==
    IF n = 0 THEN [all_documents |-> <<>>, successful_files |-> 0, failed_files |-> 0]
    ELSE LET acc == Collect(rs, n - 1)
             r == rs[n][1]
         IN  IF r.success
             THEN [acc EXCEPT !.all_documents = @ \o r.documents,
                              !.successful_files = @ + 1]
             ELSE [acc EXCEPT !.failed_files = @ + 1]

\* a ProcessingResult that drops the tallies when it carries an error
ProcessingResultZeroed(ok, processed, failed, msg) ==
    [success |-> ok,
     documents_processed |-> IF msg = None THEN processed ELSE 0,
     documents_failed |-> IF msg = None THEN failed ELSE 0,
     error_message |-> msg]

\* ProcessingResult
ProcessingResult(ok, processed, failed, msg) ==
    [success |-> ok, documents_processed |-> processed,
     documents_failed |-> failed, error_message |-> msg]

FileDone == [pc |-> "done", fut |-> "none"]

\* task i resolves to r: `async with semaphore` releases its slot; c, v, w are
\* the tasks and the semaphore before the release
Resolve(i, r, v, w, c) ==
    LET sem == Release(v, w, c) IN
    /\ results' = [results EXCEPT ![i] = Some(r)]
    /\ child' = Wake([c EXCEPT ![i] = FileDone], sem.woken)
    /\ file_semaphore' = [value |-> sem.value, waiters |-> w]

\* task i holds a slot (the semaphore is left as v, w; the tasks as c) and calls
\* _process_single_file_async, which returns at once or suspends in the load
Process(i, v, w, c) ==
    IF Validate(i) # None
    THEN Resolve(i, Validate(i)[1], v, w, c)
    ELSE /\ child' = [c EXCEPT ![i] = [pc |-> "loading", fut |-> "none"]]
         /\ file_semaphore' = [value |-> v, waiters |-> w]
         /\ UNCHANGED results

\* lines 215-227 without the `if not file_paths` test of line 206
ProcessFilesConcurrentUnchecked ==
    /\ batch.pc = "called"
    /\ batch' = [pc |-> "gather"]
    /\ child' = [i \in 1..Len(file_paths) |-> [pc |-> "created", fut |-> "none"]]
    /\ results' = [i \in 1..Len(file_paths) |-> None]
    /\ file_semaphore' = [value |-> MaxConcurrentFiles, waiters |-> <<>>]
    /\ UNCHANGED <<file_paths, vector_store, registry_vars, other_vars, router_vars>>

\* the call: lines 206-227
ProcessFilesConcurrent ==
    /\ batch.pc = "called"
    /\ IF file_paths = <<>>
       THEN /\ batch' = [pc |-> "returned",
                         result |-> ProcessingResult(FALSE, 0, 0, Some("No files provided"))]
            /\ UNCHANGED <<child, file_semaphore, results>>
       ELSE /\ batch' = [pc |-> "gather"]
            /\ child' = [i \in 1..Len(file_paths) |-> [pc |-> "created", fut |-> "none"]]
            /\ results' = [i \in 1..Len(file_paths) |-> None]
            /\ file_semaphore' = [value |-> MaxConcurrentFiles, waiters |-> <<>>]
    /\ UNCHANGED <<file_paths, vector_store, registry_vars, other_vars, router_vars>>

\* first step of process_with_semaphore for path i
FileStart(i) ==
    /\ i \in DOMAIN child
    /\ child[i].pc = "created"
    /\ IF Locked(file_semaphore.value, file_semaphore.waiters, child)
       THEN /\ child' = [child EXCEPT ![i] = [pc |-> "sem_wait", fut |-> "pending"]]
            /\ file_semaphore' = [file_semaphore EXCEPT !.waiters = Append(@, i)]
            /\ UNCHANGED results
       ELSE Process(i, file_semaphore.value - 1, file_semaphore.waiters, child)
    /\ UNCHANGED <<file_paths, batch, vector_store, registry_vars, other_vars, router_vars>>

\* process_with_semaphore resumes inside Semaphore.acquire with a slot
FileAcquired(i) ==
    /\ i \in DOMAIN child
    /\ child[i].pc = "sem_wait"
    /\ child[i].fut = "result"
    /\ LET w == Remove(file_semaphore.waiters, i)
           sem == IF file_semaphore.value > 0
                  THEN WakeUpNext(file_semaphore.value, w, child)
                  ELSE [value |-> file_semaphore.value, woken |-> 0]
       IN  Process(i, sem.value, w, Wake(child, sem.woken))
    /\ UNCHANGED <<file_paths, batch, vector_store, registry_vars, other_vars, router_vars>>

\* the executor has run _load_document for path i
FileLoaded(i) ==
    /\ i \in DOMAIN child
    /\ child[i].pc = "loading"
    /\ IF Loaded(i) # None
       THEN Resolve(i, Loaded(i)[1], file_semaphore.value, file_semaphore.waiters,
                    child)
       ELSE /\ child' = [child EXCEPT ![i].pc = "splitting"]
            /\ UNCHANGED <<file_semaphore, results>>
    /\ UNCHANGED <<file_paths, batch, vector_store, registry_vars, other_vars, router_vars>>

\* the executor has run split_documents for path i
FileSplit(i) ==
    /\ i \in DOMAIN child
    /\ child[i].pc = "splitting"
    /\ Resolve(i, Split(i), file_semaphore.value, file_semaphore.waiters, child)
    /\ UNCHANGED <<file_paths, batch, vector_store, registry_vars, other_vars, router_vars>>

\* lines 229-265 without the `if all_documents` test of line 249
AggregateStoresAlways ==
    /\ batch.pc = "gather"
    /\ \A i \in DOMAIN child : child[i].pc = "done"
    /\ LET acc == Collect(results, Len(file_paths)) IN
       \E ok \in BOOLEAN :
          /\ vector_store' = Append(vector_store, acc.all_documents)
          /\ batch' = [pc |-> "returned",
                       all_documents |-> acc.all_documents,
                       successful_files |-> acc.successful_files,
                       failed_files |-> acc.failed_files,
                       result |-> ProcessingResult(
                           ok /\ acc.successful_files > 0,
                           Len(acc.all_documents), acc.failed_files,
                           IF ok THEN None
                           ELSE Some("Failed to store documents in vector database"))]
    /\ UNCHANGED <<file_paths, child, file_semaphore, results, registry_vars, other_vars, router_vars>>

\* gather has every result: lines 229-265, the document store answering ok
Aggregate ==
    /\ batch.pc = "gather"
    /\ \A i \in DOMAIN child : child[i].pc = "done"
    /\ LET acc == Collect(results, Len(file_paths)) IN
       \E ok \in BOOLEAN :
          LET storage_success == IF acc.all_documents # <<>> THEN ok ELSE TRUE IN
          /\ vector_store' = IF acc.all_documents # <<>>
                             THEN Append(vector_store, acc.all_documents)
                             ELSE vector_store
          /\ batch' = [pc |-> "returned",
                       all_documents |-> acc.all_documents,
                       successful_files |-> acc.successful_files,
                       failed_files |-> acc.failed_files,
                       result |-> ProcessingResult(
                           storage_success /\ acc.successful_files > 0,
                           Len(acc.all_documents), acc.failed_files,
                           IF storage_success THEN None
                           ELSE Some("Failed to store documents in vector database"))]
    /\ UNCHANGED <<file_paths, child, file_semaphore, results, registry_vars, other_vars, router_vars>>

\* ------------------------------------------------- specifications
\* the registry driven by callers that submit coroutine functions of their own
Next ==
    \/ SubmitGeneric
    \/ \E t \in TaskIds : ExecuteTaskStart(t)
    \/ \E t \in TaskIds : AcquireResume(t)
    \/ \E t \in TaskIds : WorkReturn(t)
    \/ \E t \in TaskIds : WorkRaise(t)
    \/ \E t \in TaskIds : WorkCancelled(t)
    \/ \E t \in TaskIds : CancelTask(t)
    \/ \E t \in TaskIds : CancelTaskRefused(t)
    \/ \E t \in TaskIds : GetTaskStatus(t)
    \/ \E b \in BOOLEAN : GetAllTasks(b)
    \/ CleanupCompletedTasks
    \/ Tick

Spec == Init /\ [][Next]_vars

\* the event loop runs every coroutine step that is ready, and every unit of
\* work that has started returns or raises in the end, however often a
\* cancellation it ignores is sent to it
FairSpec ==
    /\ Spec
    /\ \A t \in TaskIds :
          WF_vars(ExecuteTaskStart(t) \/ AcquireResume(t) \/ WorkCancelled(t))
    /\ \A t \in TaskIds : SF_vars(WorkReturn(t) \/ WorkRaise(t))

\* the registry driven by the upload endpoint
FilesNext ==
    \/ ProcessUploadedFiles
    \/ \E t \in TaskIds : ExecuteTaskStart(t)
    \/ \E t \in TaskIds : AcquireResume(t)
    \/ \E t \in TaskIds : BytesSaved(t)
    \/ \E t \in TaskIds : BatchReturns(t)
    \/ \E t \in TaskIds : BatchRaises(t)
    \/ \E t \in TaskIds : FilesCancelled(t)
    \/ \E t \in TaskIds : CancelTask(t)
    \/ \E t \in TaskIds : CancelTaskRefused(t)

FilesSpec == Init /\ [][FilesNext]_vars

\* one call of process_files_concurrent on any list of at most MaxFiles paths
BatchInit ==
    /\ RegistryInit
    /\ file_paths \in UNION {[1..n -> FileKinds] : n \in 0..MaxFiles}
    /\ child = <<>>
    /\ file_semaphore = [value |-> 0, waiters |-> <<>>]
    /\ results = <<>>
    /\ batch = [pc |-> "called"]
    /\ vector_store = <<>>
    /\ OtherInit

BatchNext ==
    \/ ProcessFilesConcurrent
    \/ \E i \in 1..MaxFiles : FileStart(i)
    \/ \E i \in 1..MaxFiles : FileAcquired(i)
    \/ \E i \in 1..MaxFiles : FileLoaded(i)
    \/ \E i \in 1..MaxFiles : FileSplit(i)
    \/ Aggregate

BatchSpec == BatchInit /\ [][BatchNext]_vars

\* the event loop runs every task that is ready, the executor every job
FairBatchSpec ==
    /\ BatchSpec
    /\ WF_vars(ProcessFilesConcurrent)
    /\ \A i \in 1..MaxFiles :
          WF_vars(FileStart(i) \/ FileAcquired(i) \/ FileLoaded(i) \/ FileSplit(i))
    /\ WF_vars(Aggregate)

\* the event loop runs every coroutine step that is ready: a first step, a
\* wake-up inside Semaphore.acquire, the delivery of a CancelledError
FairFilesSpec ==
    /\ FilesSpec
    /\ \A t \in TaskIds :
          WF_vars(ExecuteTaskStart(t) \/ AcquireResume(t) \/ FilesCancelled(t))

\* ------------------------------------------------- FileProcessingService.process_uploaded_files
\* the directories under settings.temp_files_dir after cleanup_directory has
\* removed settings.temp_files_dir itself
CleanupTempFilesDir(dirs) == {}

\* a caller awaits process_uploaded_files(files) of the service, from the call
\* to the end of its finally block: it works in settings.temp_files_dir, the
\* parent of every per-task directory, and removes it when it ends
ServiceProcessUploadedFiles ==
    /\ scratch' = CleanupTempFilesDir(scratch)
    /\ UNCHANGED <<tasks, running_tasks, semaphore_value, semaphore_waiters, co,
                   unit, next_id, now, batch_vars, other_vars, router_vars>>

\* the upload tasks of FilesSpec next to callers of process_uploaded_files
ScratchNext ==
    \/ ProcessUploadedFiles
    \/ \E t \in TaskIds : ExecuteTaskStart(t)
    \/ \E t \in TaskIds : AcquireResume(t)
    \/ \E t \in TaskIds : BytesSaved(t)
    \/ \E t \in TaskIds : BatchReturns(t)
    \/ \E t \in TaskIds : BatchRaises(t)
    \/ \E t \in TaskIds : FilesCancelled(t)
    \/ \E t \in TaskIds : CancelTask(t)
    \/ ServiceProcessUploadedFiles

ScratchSpec == Init /\ [][ScratchNext]_vars

\* ------------------------------------------------- the ready queue
\* asyncio.create_task schedules the first step of a task with call_soon, and
\* the event loop runs the callbacks of its ready queue in the order in which
\* they were scheduled: the first step of a task runs after the first step of
\* every task created before it
ExecuteTaskStartInOrder(t) ==
    /\ t \in DOMAIN co
    /\ \A u \in 1..(t - 1) : co[u].pc # "created"
    /\ ExecuteTaskStart(t)

\* Semaphore.release sets the result of the first pending future of the deque,
\* which schedules the resumption of its task; a future stays in the deque
\* until its task resumes, so the tasks that hold a result resume in the
\* order of the deque
AcquireResumeInOrder(t) ==
    /\ t \in DOMAIN co
    /\ co[t].fut = "result" =>
          \A i \in 1..Len(semaphore_waiters) :
              (semaphore_waiters[i] # t /\ co[semaphore_waiters[i]].fut = "result")
                  => \E j \in 1..(i - 1) : semaphore_waiters[j] = t
    /\ AcquireResume(t)

\* the registry with up to MaxQueued tasks, the steps of its tasks in the order
\* of the ready queue
QueueNext ==
    \/ (\E u \in GenericUnits : CreateTaskBelow(u, MaxQueued)) /\ UNCHANGED router_vars
    \/ \E t \in 1..MaxQueued : ExecuteTaskStartInOrder(t)
    \/ \E t \in 1..MaxQueued : AcquireResumeInOrder(t)
    \/ \E t \in 1..MaxQueued : WorkReturn(t)
    \/ \E t \in 1..MaxQueued : WorkRaise(t)
    \/ \E t \in 1..MaxQueued : WorkCancelled(t)
    \/ \E t \in 1..MaxQueued : CancelTask(t)

QueueSpec == Init /\ [][QueueNext]_vars

\* ------------------------------------------------- concurrent batch calls
\* The callers of process_files_concurrent are the units of work the registry
\* runs at the same time (process_uploaded_file_bytes, process_uploaded_file_paths,
\* process_directory_files); each call fans out MaxFiles readable text files.
Callers == 1..MaxCalls

\* lines 215-226: the call has built its own semaphore and its tasks
NewCall ==
    [pc |-> "gather",
     child |-> [i \in 1..MaxFiles |-> [pc |-> "created", fut |-> "none"]],
     value |-> MaxConcurrentFiles,
     waiters |-> <<>>]

\* caller c calls process_files_concurrent
CallProcessFilesConcurrent(c) ==
    /\ c \notin DOMAIN calls
    /\ calls' = calls @@ (c :> NewCall)
    /\ UNCHANGED <<executor, gate_vars, router_vars, registry_vars, batch_vars>>

\* first step of process_with_semaphore for path i of call c: it waits for a
\* slot of the semaphore of ITS call, or takes one and hands _load_document to
\* the executor
CallFileStart(c, i) ==
    /\ c \in DOMAIN calls
    /\ i \in DOMAIN calls[c].child
    /\ calls[c].child[i].pc = "created"
    /\ LET k == calls[c] IN
       IF Locked(k.value, k.waiters, k.child)
       THEN calls' = [calls EXCEPT
                ![c].child[i] = [pc |-> "sem_wait", fut |-> "pending"],
                ![c].waiters = Append(@, i)]
       ELSE calls' = [calls EXCEPT
                ![c].child[i] = [pc |-> "loading", fut |-> "none"],
                ![c].value = @ - 1]
    /\ UNCHANGED <<executor, gate_vars, router_vars, registry_vars, batch_vars>>

\* process_with_semaphore of path i of call c resumes in Semaphore.acquire
CallFileAcquired(c, i) ==
    /\ c \in DOMAIN calls
    /\ i \in DOMAIN calls[c].child
    /\ calls[c].child[i].pc = "sem_wait"
    /\ calls[c].child[i].fut = "result"
    /\ LET k == calls[c]
           w == Remove(k.waiters, i)
           sem == IF k.value > 0 THEN WakeUpNext(k.value, w, k.child)
                  ELSE [value |-> k.value, woken |-> 0]
       IN  calls' = [calls EXCEPT
               ![c].child = Wake([k.child EXCEPT ![i] = [pc |-> "loading",
                                                        fut |-> "none"]],
                                 sem.woken),
               ![c].value = sem.value,
               ![c].waiters = w]
    /\ UNCHANGED <<executor, gate_vars, router_vars, registry_vars, batch_vars>>

\* a thread of the pool (max_workers = max_concurrent_files) takes the job
\* path i of call c has handed to run_in_executor
ExecutorStart(c, i) ==
    /\ c \in DOMAIN calls
    /\ i \in DOMAIN calls[c].child
    /\ calls[c].child[i].pc \in {"loading", "splitting"}
    /\ <<c, i>> \notin executor
    /\ Cardinality(executor) < MaxConcurrentFiles
    /\ executor' = executor \cup {<<c, i>>}
    /\ UNCHANGED <<calls, gate_vars, router_vars, registry_vars, batch_vars>>

\* the thread has run _load_document: path i hands split_documents to the pool
CallFileLoaded(c, i) ==
    /\ <<c, i>> \in executor
    /\ calls[c].child[i].pc = "loading"
    /\ calls' = [calls EXCEPT ![c].child[i].pc = "splitting"]
    /\ executor' = executor \ {<<c, i>>}
    /\ UNCHANGED <<gate_vars, router_vars, registry_vars, batch_vars>>

\* the thread has run split_documents: path i resolves and releases its slot
CallFileSplit(c, i) ==
    /\ <<c, i>> \in executor
    /\ calls[c].child[i].pc = "splitting"
    /\ LET k == calls[c]
           sem == Release(k.value, k.waiters, k.child)
       IN  calls' = [calls EXCEPT
               ![c].child = Wake([k.child EXCEPT ![i] = FileDone], sem.woken),
               ![c].value = sem.value]
    /\ executor' = executor \ {<<c, i>>}
    /\ UNCHANGED <<gate_vars, router_vars, registry_vars, batch_vars>>

\* gather has every result of call c: the call aggregates and returns
CallReturns(c) ==
    /\ c \in DOMAIN calls
    /\ calls[c].pc = "gather"
    /\ \A i \in DOMAIN calls[c].child : calls[c].child[i].pc = "done"
    /\ calls' = [calls EXCEPT ![c].pc = "returned"]
    /\ UNCHANGED <<executor, gate_vars, router_vars, registry_vars, batch_vars>>

CallsNext ==
    \/ \E c \in Callers : CallProcessFilesConcurrent(c)
    \/ \E c \in Callers, i \in 1..MaxFiles : CallFileStart(c, i)
    \/ \E c \in Callers, i \in 1..MaxFiles : CallFileAcquired(c, i)
    \/ \E c \in Callers, i \in 1..MaxFiles : ExecutorStart(c, i)
    \/ \E c \in Callers, i \in 1..MaxFiles : CallFileLoaded(c, i)
    \/ \E c \in Callers, i \in 1..MaxFiles : CallFileSplit(c, i)
    \/ \E c \in Callers : CallReturns(c)

CallsSpec == Init /\ [][CallsNext]_vars

\* ------------------------------------------------- RepositoryService
\* a URL as urlparse sees it: its scheme and its hostname ("none": no hostname)
Schemes == {"http", "https", "git", "ssh", "ftp"}
Hosts == {"none", "github.com", "git.example.org"}
Urls == [scheme : Schemes, host : Hosts]

\* _validate_git_url: a known or an unknown host passes, no host does not
ValidateGitUrl(url) ==
    /\ url.scheme \in {"http", "https", "git", "ssh"}
    /\ url.host # "none"

RepoOps == 1..MaxRepoOps
\* the URLs the callers of the service pass
RepoUrls == {[scheme |-> "https", host |-> "github.com"],
             [scheme |-> "ftp", host |-> "github.com"]}

\* settings.temp_repo_dir for process_repository, the same with "_structure"
\* appended for get_repository_structure
RepoDir(kind) == IF kind = "process" THEN "temp_repo" ELSE "temp_repo_structure"

\* the coroutine of a call as its caller schedules it; thread is the clone
\* thread run_in_executor starts for it
NewRepoOp(kind, url) ==
    [kind |-> kind, url |-> url, pc |-> "created", fut |-> "none",
     must_cancel |-> FALSE, thread |-> "none", exit |-> "none"]

\* the calls whose clone thread is still writing under directory d
Writers(ops, d) ==
    {p \in DOMAIN ops : ops[p].thread = "running" /\ RepoDir(ops[p].kind) = d}

\* cleanup_directory(d): the trees that can be on disk after it. shutil.rmtree
\* raises and leaves the tree when a clone thread adds files while it runs
CleanupDirectory(ops, tree, d) ==
    IF d \in tree /\ Writers(ops, d) # {} THEN {tree, tree \ {d}} ELSE {tree \ {d}}

\* asyncio.Lock.acquire takes the lock at once
LockFree(l, ops) ==
    /\ ~l.locked
    /\ \A i \in 1..Len(l.waiters) : ops[l.waiters[i]].fut = "cancelled"

\* asyncio.Lock._wake_up_first: the waiter whose future gets its result (0: none)
WakeUpFirst(w, ops) ==
    IF w # <<>> /\ ops[w[1]].fut = "pending" THEN w[1] ELSE 0

\* a caller calls process_repository or get_repository_structure
RepoCall(o, kind, url) ==
    /\ o \notin DOMAIN repo_ops
    /\ repo_ops' = repo_ops @@ (o :> NewRepoOp(kind, url))
    /\ UNCHANGED <<clone_lock, repo_tree, calls_vars, router_vars, registry_vars,
                   batch_vars>>

\* call o leaves its try block with `exit`, its clone thread left as `thread`:
\* the finally block runs cleanup_directory, which may itself raise, and
\* process_repository then releases the lock
RepoExit(o, exit, thread) ==
    LET d == RepoDir(repo_ops[o].kind)
        ops == [repo_ops EXCEPT ![o].thread = thread]
        held == repo_ops[o].kind = "process"
        woken == IF held THEN WakeUpFirst(clone_lock.waiters, repo_ops) ELSE 0
    IN  \E tree \in CleanupDirectory(ops, repo_tree, d) :
           /\ repo_tree' = tree
           /\ repo_ops' = Wake([ops EXCEPT ![o].pc = "done",
                                           ![o].must_cancel = FALSE,
                                           ![o].exit = IF d \in tree THEN "raised"
                                                       ELSE exit],
                               woken)
           /\ clone_lock' = IF held THEN [clone_lock EXCEPT !.locked = FALSE]
                            ELSE clone_lock

\* call o is inside its try block (process_repository: holding the lock, its
\* waiters left as w): the stale tree is removed and the clone handed to a thread
RepoEnter(o, w) ==
    LET d == RepoDir(repo_ops[o].kind)
        held == repo_ops[o].kind = "process"
    IN  \E stale \in CleanupDirectory(repo_ops, repo_tree, d) :
           IF d \notin stale
           THEN /\ repo_tree' = stale
                /\ repo_ops' = [repo_ops EXCEPT ![o].pc = "cloning",
                                                ![o].fut = "none",
                                                ![o].thread = "running"]
                /\ clone_lock' = IF held THEN [locked |-> TRUE, waiters |-> w]
                                 ELSE clone_lock
           ELSE \* cleanup_directory raised: HTTPException(500), then finally
                \E tree \in CleanupDirectory(repo_ops, repo_tree, d) :
                   /\ repo_tree' = tree
                   /\ repo_ops' =
                         Wake([repo_ops EXCEPT ![o].pc = "done", ![o].fut = "none",
                                               ![o].exit = "raised"],
                              IF held THEN WakeUpFirst(w, repo_ops) ELSE 0)
                   /\ clone_lock' = IF held THEN [locked |-> FALSE, waiters |-> w]
                                    ELSE clone_lock

\* first step of the coroutine of call o
RepoStart(o) ==
    /\ o \in DOMAIN repo_ops
    /\ repo_ops[o].pc = "created"
    /\ \/ /\ repo_ops[o].must_cancel
          /\ repo_ops' = [repo_ops EXCEPT ![o].pc = "done", ![o].must_cancel = FALSE,
                                          ![o].exit = "cancelled"]
          /\ UNCHANGED <<clone_lock, repo_tree>>
       \/ /\ ~repo_ops[o].must_cancel
          /\ ~ValidateGitUrl(repo_ops[o].url)
          /\ repo_ops' = [repo_ops EXCEPT ![o].pc = "done", ![o].exit = "raised"]
          /\ UNCHANGED <<clone_lock, repo_tree>>
       \/ /\ ~repo_ops[o].must_cancel
          /\ ValidateGitUrl(repo_ops[o].url)
          /\ repo_ops[o].kind = "process" => LockFree(clone_lock, repo_ops)
          /\ RepoEnter(o, clone_lock.waiters)
       \/ /\ ~repo_ops[o].must_cancel
          /\ ValidateGitUrl(repo_ops[o].url)
          /\ repo_ops[o].kind = "process"
          /\ ~LockFree(clone_lock, repo_ops)
          /\ repo_ops' = [repo_ops EXCEPT ![o].pc = "lock_wait", ![o].fut = "pending"]
          /\ clone_lock' = [clone_lock EXCEPT !.waiters = Append(@, o)]
          /\ UNCHANGED repo_tree
    /\ UNCHANGED <<calls_vars, router_vars, registry_vars, batch_vars>>

\* call o resumes inside Lock.acquire
RepoLockResume(o) ==
    /\ o \in DOMAIN repo_ops
    /\ repo_ops[o].pc = "lock_wait"
    /\ LET w == Remove(clone_lock.waiters, o) IN
       \/ /\ repo_ops[o].fut = "cancelled" \/ (repo_ops[o].fut = "result"
                                               /\ repo_ops[o].must_cancel)
          /\ repo_ops' =
                Wake([repo_ops EXCEPT ![o].pc = "done", ![o].fut = "none",
                                      ![o].must_cancel = FALSE,
                                      ![o].exit = "cancelled"],
                     IF clone_lock.locked THEN 0 ELSE WakeUpFirst(w, repo_ops))
          /\ clone_lock' = [clone_lock EXCEPT !.waiters = w]
          /\ UNCHANGED repo_tree
       \/ /\ repo_ops[o].fut = "result"
          /\ ~repo_ops[o].must_cancel
          /\ RepoEnter(o, w)
    /\ UNCHANGED <<calls_vars, router_vars, registry_vars, batch_vars>>

\* the clone thread of call o creates the tree or adds to it
CloneWrites(o) ==
    /\ o \in DOMAIN repo_ops
    /\ repo_ops[o].thread = "running"
    /\ RepoDir(repo_ops[o].kind) \notin repo_tree
    /\ repo_tree' = repo_tree \cup {RepoDir(repo_ops[o].kind)}
    /\ UNCHANGED <<clone_lock, repo_ops, calls_vars, router_vars, registry_vars,
                   batch_vars>>

\* process_repository without the `if not clone_success` test of line 154
CloneReturnsAnyway(o) ==
    /\ o \in DOMAIN repo_ops
    /\ repo_ops[o].pc = "cloning"
    /\ ~repo_ops[o].must_cancel
    /\ \/ /\ repo_ops[o].kind = "process"
          /\ repo_ops' = [repo_ops EXCEPT ![o].pc = "processing",
                                          ![o].thread = "none"]
          /\ UNCHANGED <<clone_lock, repo_tree>>
       \/ RepoExit(o, "returned", "none")
    /\ UNCHANGED <<calls_vars, router_vars, registry_vars, batch_vars>>

\* the clone thread of call o ends and the call resumes: the clone failed
\* (HTTPException 400), or it succeeded and the call goes on: process_repository
\* to the batch runner (or straight to its result when no file is left after the
\* ignore patterns), get_repository_structure to its result
CloneReturns(o) ==
    /\ o \in DOMAIN repo_ops
    /\ repo_ops[o].pc = "cloning"
    /\ ~repo_ops[o].must_cancel
    /\ \/ RepoExit(o, "raised", "none")
       \/ /\ RepoDir(repo_ops[o].kind) \in repo_tree
          /\ \/ /\ repo_ops[o].kind = "process"
                /\ repo_ops' = [repo_ops EXCEPT ![o].pc = "processing",
                                                ![o].thread = "none"]
                /\ UNCHANGED <<clone_lock, repo_tree>>
             \/ RepoExit(o, "returned", "none")
    /\ UNCHANGED <<calls_vars, router_vars, registry_vars, batch_vars>>

\* process_directory_files returns to process_repository, or raises
RepoProcessed(o) ==
    /\ o \in DOMAIN repo_ops
    /\ repo_ops[o].pc = "processing"
    /\ ~repo_ops[o].must_cancel
    /\ \E exit \in {"returned", "raised"} : RepoExit(o, exit, "none")
    /\ UNCHANGED <<calls_vars, router_vars, registry_vars, batch_vars>>

\* CancelledError is thrown into call o at its suspension point; a clone thread
\* that is running goes on running
RepoCancelled(o) ==
    /\ o \in DOMAIN repo_ops
    /\ repo_ops[o].pc \in {"cloning", "processing"}
    /\ repo_ops[o].must_cancel
    /\ RepoExit(o, "cancelled", repo_ops[o].thread)
    /\ UNCHANGED <<calls_vars, router_vars, registry_vars, batch_vars>>

\* the clone thread of a call that was cancelled ends
CloneThreadEnds(o) ==
    /\ o \in DOMAIN repo_ops
    /\ repo_ops[o].pc = "done"
    /\ repo_ops[o].thread = "running"
    /\ repo_ops' = [repo_ops EXCEPT ![o].thread = "none"]
    /\ UNCHANGED <<clone_lock, repo_tree, calls_vars, router_vars, registry_vars,
                   batch_vars>>

\* the task that runs call o is cancelled (asyncio.Task.cancel)
RepoCancel(o) ==
    /\ o \in DOMAIN repo_ops
    /\ repo_ops[o].pc # "done"
    /\ repo_ops' = [repo_ops EXCEPT ![o] =
          IF @.pc = "lock_wait" /\ @.fut = "pending"
          THEN [@ EXCEPT !.fut = "cancelled"]
          ELSE [@ EXCEPT !.must_cancel = TRUE]]
    /\ UNCHANGED <<clone_lock, repo_tree, calls_vars, router_vars, registry_vars,
                   batch_vars>>

RepoNext ==
    \/ \E o \in RepoOps, kind \in {"process", "structure"}, url \in RepoUrls :
          RepoCall(o, kind, url)
    \/ \E o \in RepoOps : RepoStart(o)
    \/ \E o \in RepoOps : RepoLockResume(o)
    \/ \E o \in RepoOps : CloneWrites(o)
    \/ \E o \in RepoOps : CloneReturns(o)
    \/ \E o \in RepoOps : RepoProcessed(o)
    \/ \E o \in RepoOps : RepoCancelled(o)
    \/ \E o \in RepoOps : CloneThreadEnds(o)
    \/ \E o \in RepoOps : RepoCancel(o)

RepoSpec == Init /\ [][RepoNext]_vars

\* ------------------------------------------------- POST /process-repo
\* RepoURL.url, a pydantic HttpUrl, with no check at all
HttpUrlAny(url) == TRUE

\* RepoURL.url is a pydantic HttpUrl: the request body is validated before the
\* endpoint runs, and only http and https URLs with a host pass
HttpUrl(url) == url.scheme \in {"http", "https"} /\ url.host # "none"

\* repo_service.process_repository with its argument: for the registry a
\* coroutine function like any other
RepoUnit(url) ==
    [kind |-> "generic", coop |-> TRUE, items |-> FALSE, paths |-> FALSE,
     work_dir |-> FALSE, url |-> url]

\* what an endpoint answers: the HTTP status and the id of the task it created
\* (0: none), with the request it answers
Reply(request, status, task_id) ==
    Some([request |-> request, status |-> status, task_id |-> task_id])

\* POST /process-repo with a body whose url is `url`
PostProcessRepo(url) ==
    /\ IF HttpUrl(url)
       THEN /\ CreateTask(RepoUnit(url))
            /\ reply' = Reply(url, 202, next_id + 1)
       ELSE /\ reply' = Reply(url, 422, 0)
            /\ UNCHANGED <<registry_vars, batch_vars, other_vars>>
    /\ UNCHANGED upload

\* the endpoint driven by any URL, the registry running the tasks it creates
SubmitNext ==
    \/ \E url \in Urls : PostProcessRepo(url)
    \/ \E t \in TaskIds : ExecuteTaskStart(t)
    \/ \E t \in TaskIds : AcquireResume(t)
    \/ \E t \in TaskIds : WorkReturn(t)
    \/ \E t \in TaskIds : WorkRaise(t)
    \/ \E t \in TaskIds : GetTaskStatus(t)

SubmitSpec == Init /\ [][SubmitNext]_vars

\* ------------------------------------------------- POST /process-files
MiB == 1024 * 1024
IN_MEMORY_LIMIT_BYTES == 5 * MiB

\* an uploaded file: the length of its content, whether `await f.read()`
\* succeeds, whether writing it under the scratch directory succeeds
UploadFiles ==
    {f \in [size : {0, 3 * MiB, IN_MEMORY_LIMIT_BYTES, IN_MEMORY_LIMIT_BYTES + 1,
                    7 * MiB},
            readable : BOOLEAN, writable : BOOLEAN] :
        /\ ~f.readable => (f.size = 0 /\ f.writable)
        /\ f.size <= IN_MEMORY_LIMIT_BYTES => f.writable}

\* the per-task temp dir of the request being served: its uuid names the
\* directory of the task the request goes on to create
UploadDir == WorkDir(next_id + 1)

\* lines 54-56: the locals of the handler; created counts the directories it
\* has made, written is the items it has written to disk
NewUpload(files) ==
    [pc |-> "loop", files |-> files, idx |-> 1, task_temp_dir |-> FALSE,
     saved_paths |-> <<>>, items_in_memory |-> <<>>, created |-> 0, written |-> {}]

\* line 74 with < for <=
KeptInMemoryBelow(size) == size < IN_MEMORY_LIMIT_BYTES

\* line 74: the content stays in memory
KeptInMemory(size) == size <= IN_MEMORY_LIMIT_BYTES

\* line 79 without the test: a directory for every oversized item
NeedsDirAlways(up) == TRUE

\* line 79: no directory has been made for this request yet
NeedsDir(up) == ~up.task_temp_dir

\* lines 101-105 without the cleanup_directory call
DiscardedNothing(up) == {}

\* lines 103-104: the directory the handler removes when nothing is left
Discarded(up) == IF up.task_temp_dir THEN {UploadDir} ELSE {}

\* the request arrives with its files
PostProcessFiles(files) ==
    /\ upload.pc \in {"idle", "answered"}
    /\ next_id < MaxTasks
    /\ IF files = <<>>
       THEN /\ reply' = Reply("files", 400, 0)
            /\ upload' = [NewUpload(files) EXCEPT !.pc = "answered"]
       ELSE /\ upload' = NewUpload(files)
            /\ UNCHANGED reply
    /\ UNCHANGED <<registry_vars, batch_vars, other_vars>>

\* lines 59-99: one turn of the loop, on file upload.idx
RouteItem ==
    /\ upload.pc = "loop"
    /\ upload.idx <= Len(upload.files)
    /\ LET f == upload.files[upload.idx]
           next == [upload EXCEPT !.idx = @ + 1]
       IN  IF ~f.readable \/ f.size = 0
           THEN /\ upload' = next
                /\ UNCHANGED scratch
           ELSE IF KeptInMemory(f.size)
           THEN /\ upload' = [next EXCEPT !.items_in_memory = Append(@, upload.idx)]
                /\ UNCHANGED scratch
           ELSE LET made == NeedsDir(upload)
                    dir == [next EXCEPT !.task_temp_dir = TRUE,
                                        !.created = IF made THEN @ + 1 ELSE @]
                IN  /\ scratch' = scratch \cup {UploadDir}
                    /\ upload' = IF f.writable
                                 THEN [dir EXCEPT !.saved_paths = Append(@, upload.idx),
                                                  !.written = @ \cup {upload.idx}]
                                 ELSE dir
    /\ UNCHANGED <<tasks, running_tasks, semaphore_value, semaphore_waiters, co, unit,
                   next_id, now, reply, batch_vars, other_vars>>

\* lines 101-167: nothing is left to process, or _bg_worker is scheduled
RouteFinish ==
    /\ upload.pc = "loop"
    /\ upload.idx > Len(upload.files)
    /\ upload' = [upload EXCEPT !.pc = "answered"]
    /\ IF upload.items_in_memory = <<>> /\ upload.saved_paths = <<>>
       THEN /\ scratch' = scratch \ Discarded(upload)
            /\ reply' = Reply("files", 400, 0)
            /\ UNCHANGED <<tasks, running_tasks, semaphore_value, semaphore_waiters,
                           co, unit, next_id, now, batch_vars, other_vars>>
       ELSE /\ CreateTask([kind |-> "files", coop |-> TRUE,
                           items |-> upload.items_in_memory # <<>>,
                           paths |-> upload.saved_paths # <<>>,
                           work_dir |-> upload.task_temp_dir])
            /\ reply' = Reply("files", 202, next_id + 1)

\* the upload endpoint serving one request after another; the tasks it creates
\* run as in FilesSpec
RouterNext ==
    \/ \E files \in UNION {[1..n -> UploadFiles] : n \in 0..MaxItems} :
          PostProcessFiles(files)
    \/ RouteItem
    \/ RouteFinish

RouterSpec == Init /\ [][RouterNext]_vars

\* ------------------------------------------------- properties
Running == {t \in DOMAIN tasks : tasks[t].status = RUNNING}

\* a cancellation the task of t has accepted and not yet seen
CancelPending(t) == co[t].must_cancel \/ co[t].fut = "cancelled"

\* the per-file process operations in progress: inside the semaphore of the call
InProgress == {i \in DOMAIN child : child[i].pc \in {"loading", "splitting"}}

\* C1: once the status of a task is Completed, Failed or Cancelled, no step of
\* any coroutine, no cancel, no lookup, no listing and no sweep changes it for
\* as long as the record exists.
C1_TerminalIsAbsorbing ==
    [][\A t \in DOMAIN tasks :
          (tasks[t].status \in Terminal /\ t \in DOMAIN tasks')
              => tasks'[t].status = tasks[t].status]_vars

\* a task ended, time passed, and another task was started afterwards
C1_Witness ==
    \E t, u \in DOMAIN tasks :
        /\ tasks[t].status \in Terminal
        /\ tasks[u].started_at # None
        /\ tasks[u].started_at[1] > tasks[t].completed_at[1]

\* C2: at most MaxConcurrentTasks tasks are Running, and a Pending task becomes
\* Running only in a step that starts with fewer than that many Running.
C2_AtMostNRunning ==
    /\ [](Cardinality(Running) <= MaxConcurrentTasks)
    /\ [][\A t \in DOMAIN tasks :
             (tasks[t].status = PENDING /\ tasks'[t].status = RUNNING)
                 => Cardinality(Running) < MaxConcurrentTasks]_vars

\* the gate is saturated and a task waits for a slot, still Pending
C2_Witness ==
    /\ Cardinality(Running) = MaxConcurrentTasks
    /\ \E t \in DOMAIN tasks : tasks[t].status = PENDING /\ co[t].pc = "sem_wait"

\* C3: every record get_task_status or get_all_tasks can return has
\* completed_at set exactly when its status is terminal.
C3_CompletedAtIffTerminal ==
    /\ \A t \in TaskIds :
          TaskStatusOf(t) # None =>
              LET r == TaskStatusOf(t)[1]
              IN  (r.completed_at # None) <=> (r.status \in Terminal)
    /\ \A t \in AllTasks(TRUE) :
          (tasks[t].completed_at # None) <=> (tasks[t].status \in Terminal)

\* a reader sees a task cancelled while it waited for a slot next to a task
\* that is still Running
C3_Witness ==
    \E t, u \in DOMAIN tasks :
        /\ tasks[t].status = CANCELLED
        /\ tasks[t].started_at = None
        /\ tasks[t].completed_at # None
        /\ tasks[u].status = RUNNING

\* C4: a task whose unit of work raised is Failed with the text of the
\* exception as error_message, its coroutine has ended and its live-task entry
\* is gone: the failure shows only in what get_task_status returns.
C4_RaiseRecordedAsFailed ==
    \A t \in DOMAIN co :
        co[t].exit = "raised" =>
            /\ co[t].pc = "done"
            /\ t \notin running_tasks
            /\ TaskStatusOf(t) # None =>
                  /\ TaskStatusOf(t)[1].status = FAILED
                  /\ TaskStatusOf(t)[1].error_message = co[t].exc

\* a unit of work has raised and the record shows it
C4_Witness ==
    \E t \in DOMAIN tasks :
        /\ co[t].exit = "raised"
        /\ tasks[t].status = FAILED
        /\ tasks[t].error_message = Some("boom")

\* C5: a task that accepted a cancellation request while Pending or Running,
\* and whose unit of work does not suppress cancellation, ends Cancelled: when
\* its coroutine ends, its status is Cancelled.
C5_CancelledWhenCancelRequested ==
    [][\A t \in DOMAIN co :
          (/\ unit[t].coop
           /\ CancelPending(t)
           /\ co[t].pc # "done"
           /\ co'[t].pc = "done")
              => tasks'[t].status = CANCELLED]_vars

\* C6: once the unit of work of a task has returned, raised or been cancelled,
\* its record is terminal and its live-task entry is gone; a Running record
\* belongs to a unit of work that has not ended.
C6_NeverRunningAfterWorkEnded ==
    \A t \in DOMAIN co :
        /\ co[t].exit # "none" =>
              /\ t \notin running_tasks
              /\ t \in DOMAIN tasks => tasks[t].status \in Terminal
        /\ (t \in DOMAIN tasks /\ tasks[t].status = RUNNING) =>
              /\ co[t].pc \in WorkStages
              /\ co[t].exit = "none"

\* a unit of work was cancelled, another returned
C6_Witness ==
    \E t, u \in DOMAIN tasks :
        /\ co[t].exit = "cancelled"
        /\ tasks[t].status = CANCELLED
        /\ co[u].exit = "returned"

\* C7: whenever the task of a submission that created a scratch directory is
\* terminal, that directory does not exist.
C7_NoScratchWhenTerminal ==
    \A t \in DOMAIN tasks :
        (unit[t].work_dir /\ tasks[t].status \in Terminal)
            => WorkDir(t) \notin scratch

\* C8: a Running file-batch task that is cancelled while it awaits the batch
\* runner becomes Cancelled, and neither its scratch directory nor the
\* directory of the file processor is left.
C8_CancelledInBatchCleansUp ==
    \A t \in TaskIds :
        (/\ t \in DOMAIN tasks
         /\ tasks[t].status = RUNNING
         /\ co[t].pc \in BatchStages
         /\ co[t].must_cancel)
        ~> (/\ t \in DOMAIN tasks
            /\ tasks[t].status = CANCELLED
            /\ WorkDir(t) \notin scratch
            /\ BytesDir(t) \notin scratch)

\* a task with a scratch directory awaits the batch runner, cancellation
\* requested
C8_Witness ==
    \E t \in DOMAIN tasks :
        /\ tasks[t].status = RUNNING
        /\ co[t].pc \in BatchStages
        /\ co[t].must_cancel
        /\ unit[t].work_dir
        /\ WorkDir(t) \in scratch

\* the paths of the batch that name a file processed successfully
Succeeding == {i \in DOMAIN file_paths : file_paths[i] \in TextKinds}

\* C9: when the call on a non-empty batch returns, every path has exactly one
\* result, carrying its own path; successful_files counts the paths processed
\* successfully, failed_files the others, and all_documents holds the chunks
\* of the successful paths and nothing else.
C9_PartialFailureTallies ==
    (batch.pc = "returned" /\ file_paths # <<>>) =>
        /\ DOMAIN results = DOMAIN file_paths
        /\ \A i \in DOMAIN file_paths :
              results[i] # None /\ results[i][1].file_path = i
        /\ batch.successful_files = Cardinality(Succeeding)
        /\ batch.failed_files = Len(file_paths) - Cardinality(Succeeding)
        /\ batch.result.documents_failed = batch.failed_files
        /\ {batch.all_documents[k] : k \in DOMAIN batch.all_documents}
              = UNION {{Documents(i)[k] : k \in DOMAIN Documents(i)} : i \in Succeeding}
        /\ Len(batch.all_documents) = Cardinality(
              {batch.all_documents[k] : k \in DOMAIN batch.all_documents})

\* a batch with an unreadable file and text files has returned
C9_Witness ==
    /\ batch.pc = "returned"
    /\ \E i \in DOMAIN file_paths : file_paths[i] = "unreadable"
    /\ Cardinality(Succeeding) = Len(file_paths) - 1
    /\ Len(file_paths) = MaxFiles

\* C10: at no time are more than MaxConcurrentFiles per-file operations of the
\* call in progress, and every path of the batch is eventually processed.
C10_BatchCeiling ==
    /\ [](Cardinality(InProgress) <= MaxConcurrentFiles)
    /\ <>(\A i \in DOMAIN file_paths : i \in DOMAIN results /\ results[i] # None)

\* the ceiling is reached and a path waits for a slot
C10_Witness ==
    /\ Cardinality(InProgress) = MaxConcurrentFiles
    /\ \E i \in DOMAIN child : child[i].pc = "sem_wait"

\* the per-file process operations in progress in any call: inside the
\* semaphore of their call, between taking the slot and resolving
CallsInProgress ==
    {p \in Callers \X (1..MaxFiles) :
        /\ p[1] \in DOMAIN calls
        /\ calls[p[1]].child[p[2]].pc \in {"loading", "splitting"}}

\* C11: however many batches run at the same time, the per-file process
\* operations in progress in all of them together never exceed the batch ceiling.
C11_SystemWideCeiling == Cardinality(CallsInProgress) <= MaxConcurrentFiles

\* the clone-and-process cycles in progress: the calls between the start of
\* their clone and their exit
InCycle == {o \in DOMAIN repo_ops : repo_ops[o].pc \in {"cloning", "processing"}}

\* C12: at most one operation that clones a repository into scratch space and
\* processes it is in progress, whichever entry point started it.
C12_OneCycleAtATime == Cardinality(InCycle) <= 1

\* C13: whenever a cycle that holds the clone lock releases it, on any exit,
\* the repository scratch tree does not exist.
C13_NoTreeAtRelease ==
    [][(clone_lock.locked /\ ~clone_lock'.locked)
          => RepoDir("process") \notin repo_tree']_vars

\* C14: a POST /process-repo whose URL fails the URL validation (scheme ftp,
\* no host) is answered at once with a validation error and creates no task
\* record; every task the endpoint creates carries a URL that passes.
C14_InvalidUrlRejected ==
    [][\A url \in Urls :
          (PostProcessRepo(url) /\ ~ValidateGitUrl(url))
              => /\ reply'[1].status = 422
                 /\ reply'[1].task_id = 0
                 /\ tasks' = tasks
                 /\ running_tasks' = running_tasks
                 /\ next_id' = next_id]_vars

\* an ftp URL has been rejected while the registry holds a task for a good one
C14_Witness ==
    /\ reply # None
    /\ reply[1].request.scheme = "ftp"
    /\ reply[1].status = 422
    /\ tasks # <<>>

\* the files of the request the handler has been through
Handled == 1..(upload.idx - 1)

\* the positions of a sequence of file indices
InSeq(q) == {q[j] : j \in DOMAIN q}

\* a file whose content was read and is above the in-memory threshold
Oversized(f) == f.readable /\ f.size > IN_MEMORY_LIMIT_BYTES

\* C15 as stated: every empty item is skipped, every item of at most 5 MiB is
\* kept in memory and never written, every item above 5 MiB is written under the
\* scratch directory and passed on as a path.
C15_RoutedBySize ==
    upload.pc \in {"loop", "answered"} =>
        \A k \in Handled :
            LET f == upload.files[k] IN
            f.readable =>
               /\ f.size = 0 =>
                     k \notin InSeq(upload.items_in_memory) \cup InSeq(upload.saved_paths)
                       \cup upload.written
               /\ (0 < f.size /\ f.size <= 5 * MiB) =>
                     /\ k \in InSeq(upload.items_in_memory)
                     /\ k \notin InSeq(upload.saved_paths) \cup upload.written
               /\ f.size > 5 * MiB =>
                     /\ k \in upload.written
                     /\ k \in InSeq(upload.saved_paths)
                     /\ k \notin InSeq(upload.items_in_memory)

\* C15 amended: as above, but an item above 5 MiB is written under the scratch
\* directory and passed on as a path only if the write succeeds; when the write
\* fails it is dropped. In both cases the scratch directory has been made.
C15_RoutedBySizeIfWritten ==
    upload.pc \in {"loop", "answered"} =>
        \A k \in Handled :
            LET f == upload.files[k] IN
            f.readable =>
               /\ f.size = 0 =>
                     k \notin InSeq(upload.items_in_memory) \cup InSeq(upload.saved_paths)
                       \cup upload.written
               /\ (0 < f.size /\ f.size <= 5 * MiB) =>
                     /\ k \in InSeq(upload.items_in_memory)
                     /\ k \notin InSeq(upload.saved_paths) \cup upload.written
               /\ f.size > 5 * MiB =>
                     /\ k \in upload.written <=> f.writable
                     /\ k \in InSeq(upload.saved_paths) <=> f.writable
                     /\ k \notin InSeq(upload.items_in_memory)
                     /\ upload.task_temp_dir

\* a 3 MiB item, an item of exactly 5 MiB and a 7 MiB item have been routed
C15_Witness ==
    /\ upload.pc = "answered"
    /\ \E a, b, c \in Handled :
          /\ upload.files[a].size = 3 * MiB /\ a \in InSeq(upload.items_in_memory)
          /\ upload.files[b].size = 5 * MiB /\ b \in InSeq(upload.items_in_memory)
          /\ upload.files[c].size = 7 * MiB /\ c \in InSeq(upload.saved_paths)

\* C16: the handler makes at most one scratch directory per request: none as
\* long as no oversized item has been met, one from the first oversized item
\* on, however many follow.
C16_OneScratchDirectory ==
    upload.pc \in {"loop", "answered"} =>
        LET met == \E k \in Handled : Oversized(upload.files[k]) IN
        /\ upload.created = IF met THEN 1 ELSE 0
        /\ upload.task_temp_dir <=> met
        /\ (upload.pc = "loop" /\ ~met) => UploadDir \notin scratch
        /\ (upload.pc = "loop" /\ met) => UploadDir \in scratch

\* two oversized items of one request have been written
C16_Witness ==
    /\ upload.pc = "loop"
    /\ Cardinality(upload.written) >= 2
    /\ upload.created = 1

\* C17: when no item of the request is left after filtering, the handler
\* answers with an error at once, creates no task, and the scratch directory
\* it made, if any, is gone.
C17_NothingToProcess ==
    [][(RouteFinish /\ upload.items_in_memory = <<>> /\ upload.saved_paths = <<>>)
          => /\ reply'[1].status = 400
             /\ reply'[1].task_id = 0
             /\ tasks' = tasks
             /\ running_tasks' = running_tasks
             /\ next_id' = next_id
             /\ UploadDir \notin scratch']_vars

\* a request whose only oversized item could not be written has been refused
C17_Witness ==
    /\ upload.pc = "answered"
    /\ upload.created = 1
    /\ upload.items_in_memory = <<>>
    /\ upload.saved_paths = <<>>
    /\ reply # None
    /\ reply[1].status = 400

\* C18: create_task hands out a fresh id and leaves under it a record that is
\* Pending with started_at and completed_at unset, touching no other record; a
\* record becomes Running only in a later step of its coroutine, from Pending,
\* and only by taking a free slot of the admission semaphore or by being handed
\* one by a release.
C18_PendingAtSubmit ==
    [][/\ next_id' # next_id =>
            /\ next_id' \notin DOMAIN tasks
            /\ DOMAIN tasks' = DOMAIN tasks \cup {next_id'}
            /\ tasks'[next_id'].status = PENDING
            /\ tasks'[next_id'].started_at = None
            /\ tasks'[next_id'].completed_at = None
            /\ \A t \in DOMAIN tasks : tasks'[t] = tasks[t]
       /\ \A t \in DOMAIN tasks' :
            (tasks'[t].status = RUNNING /\ (t \notin DOMAIN tasks
                                            \/ tasks[t].status # RUNNING)) =>
               /\ t \in DOMAIN tasks
               /\ tasks[t].status = PENDING
               /\ tasks'[t].started_at # None
               /\ \/ /\ co[t].pc = "created"
                     /\ semaphore_value > 0
                     /\ semaphore_value' = semaphore_value - 1
                  \/ /\ co[t].pc = "sem_wait"
                     /\ co[t].fut = "result"]_vars

\* a task has been submitted and is still Pending while the gate is saturated
\* by a Running one
C18_Witness ==
    \E t, u \in DOMAIN tasks :
        /\ tasks[t].status = PENDING
        /\ co[t].pc \in {"created", "sem_wait"}
        /\ tasks[u].status = RUNNING
        /\ semaphore_value = 0

\* C20: a sweep removes exactly the records that are terminal and whose
\* completed_at lies more than the retention window back, returns how many it
\* removed, and leaves every other record as it was.
C20_SweepExact ==
    [][CleanupCompletedTasks =>
          LET old == {t \in DOMAIN tasks :
                         /\ tasks[t].status \in Terminal
                         /\ now - tasks[t].completed_at[1] > CleanupInterval}
          IN  /\ DOMAIN tasks' = DOMAIN tasks \ old
              /\ CleanupReturn = Cardinality(DOMAIN tasks) - Cardinality(DOMAIN tasks')
              /\ \A t \in DOMAIN tasks' : tasks'[t] = tasks[t]]_vars

\* a sweep has removed a record and left a terminal record that is exactly one
\* retention window old
C20_Witness ==
    /\ \E t \in 1..next_id : t \notin DOMAIN tasks
    /\ \E t \in DOMAIN tasks :
          /\ tasks[t].status \in Terminal
          /\ now - tasks[t].completed_at[1] = CleanupInterval

\* C19: every submitted task reaches a terminal status in the end (after
\* which the sweep may remove its record): a task queued behind the saturated
\* gate is admitted, and nothing leaves a task waiting for ever.
C19_EveryTaskEnds ==
    \A t \in TaskIds :
        (t \in DOMAIN tasks) ~> (t \notin DOMAIN tasks \/ tasks[t].status \in Terminal)

\* C21: a record leaves the registry only in a step of the cleanup sweep, and
\* only when the sweep has collected it; a step of a task's coroutine
\* (completion, failure, cancellation), a cancel request, a lookup and a
\* listing keep every record.
C21_RemovedOnlyBySweep ==
    [][/\ \A t \in DOMAIN tasks :
             t \notin DOMAIN tasks' => (CleanupCompletedTasks /\ t \in Expired)
       /\ (\/ \E t \in TaskIds : \/ ExecuteTaskStart(t) \/ AcquireResume(t)
                                 \/ WorkReturn(t) \/ WorkRaise(t) \/ WorkCancelled(t)
                                 \/ CancelTask(t) \/ CancelTaskRefused(t)
                                 \/ GetTaskStatus(t)
           \/ \E b \in BOOLEAN : GetAllTasks(b))
             => DOMAIN tasks \subseteq DOMAIN tasks']_vars

\* the sweep has removed a record, and a task that ended later is still there
C21_Witness ==
    /\ \E t \in 1..next_id : t \notin DOMAIN tasks
    /\ \E u \in DOMAIN tasks : tasks[u].status \in Terminal

\* C22: get_task_status changes nothing, and what it returns for a task in a
\* terminal state is the same record at every later call, whatever steps the
\* registry takes in between, for as long as the record is in the registry.
C22_LookupIdempotent ==
    [][/\ \A t \in TaskIds : GetTaskStatus(t) => UNCHANGED vars
       /\ \A t \in DOMAIN tasks :
             (tasks[t].status \in Terminal /\ TaskStatusOf(t)' # None)
                 => TaskStatusOf(t)' = TaskStatusOf(t)]_vars

\* a task completed with a result, and another task failed at a later time
C22_Witness ==
    \E t, u \in DOMAIN tasks :
        /\ tasks[t].status = COMPLETED
        /\ tasks[t].result # None
        /\ tasks[u].status = FAILED
        /\ tasks[u].completed_at[1] > tasks[t].completed_at[1]

\* C23: cancel_task answers True exactly when the id names a task that is
\* Pending or Running at the time of the call; when it answers False (unknown
\* id, terminal task) no record changes.
C23_CancelAnswer ==
    /\ [](\A t \in TaskIds :
             CanCancel(t) <=> (t \in DOMAIN tasks /\ tasks[t].status \in {PENDING, RUNNING}))
    /\ [][\A t \in TaskIds : CancelTaskRefused(t) => tasks' = tasks]_vars

\* C24: started_at is set exactly for the tasks that are Running or have been
\* Running: a record is created with it unset, it becomes set in the very
\* steps in which the status becomes Running, and it is never unset again; so
\* a Pending task has it unset, a Running, Completed or Failed task has it
\* set, and a task that goes from Pending to Cancelled keeps it unset.
C24_StartedAtIffRan ==
    /\ [](\A t \in DOMAIN tasks :
             /\ tasks[t].status = PENDING => tasks[t].started_at = None
             /\ tasks[t].status \in {RUNNING, COMPLETED, FAILED}
                   => tasks[t].started_at # None)
    /\ [][\A t \in DOMAIN tasks' :
             LET before == t \in DOMAIN tasks /\ tasks[t].started_at # None
                 starts == tasks'[t].status = RUNNING
                           /\ (t \in DOMAIN tasks => tasks[t].status # RUNNING)
             IN  /\ (tasks'[t].started_at # None) <=> (before \/ starts)
                 /\ (t \in DOMAIN tasks /\ tasks[t].status = PENDING
                     /\ tasks'[t].status = CANCELLED)
                        => tasks'[t].started_at = None]_vars

\* one task was cancelled while it waited for a slot, another while it ran
C24_Witness ==
    \E t, u \in DOMAIN tasks :
        /\ tasks[t].status = CANCELLED /\ tasks[t].started_at = None
        /\ tasks[u].status = CANCELLED /\ tasks[u].started_at # None

\* C25: in the step in which the unit of work of a Running task returns a
\* value, the record becomes Completed with that value as result and progress
\* 100; at all times progress is 100 only for Completed tasks and a result is
\* set only for Completed tasks.
C25_CompletedWithResult ==
    /\ [](\A t \in DOMAIN tasks :
             /\ tasks[t].progress = 100 => tasks[t].status = COMPLETED
             /\ tasks[t].result # None => tasks[t].status = COMPLETED)
    /\ [][\A t \in DOMAIN tasks :
             (tasks[t].status = RUNNING /\ co[t].exit = "none"
              /\ co'[t].exit = "returned")
                 => /\ tasks'[t].status = COMPLETED
                    /\ tasks'[t].progress = 100
                    /\ tasks'[t].result \in {Some(v) : v \in Values}]_vars

\* a unit of work has returned and its record holds the value, next to a task
\* that failed
C25_Witness ==
    \E t, u \in DOMAIN tasks :
        /\ co[t].exit = "returned"
        /\ tasks[t].result = Some("v")
        /\ tasks[t].progress = 100
        /\ tasks[u].status = FAILED
        /\ tasks[u].progress = 0

\* C26: a step of the coroutine of one task (its start, its completion, its
\* failure, its cancellation) leaves the record of every other task as it was:
\* status, timestamps, progress, result and error_message.
C26_OnlyOwnRecord ==
    [][\A t \in TaskIds :
          (\/ ExecuteTaskStart(t) \/ AcquireResume(t) \/ WorkReturn(t)
           \/ WorkRaise(t) \/ WorkCancelled(t))
              => /\ DOMAIN tasks' = DOMAIN tasks
                 /\ \A u \in DOMAIN tasks \ {t} : tasks'[u] = tasks[u]]_vars

\* a task failed while another was waiting for its slot, and that one runs now
C26_Witness ==
    \E t, u \in DOMAIN tasks :
        /\ tasks[t].status = FAILED
        /\ tasks[t].error_message # None
        /\ tasks[u].status = RUNNING
        /\ tasks[u].started_at[1] >= tasks[t].completed_at[1]

\* the chunks of paths 1..n, in the order of the paths
RECURSIVE AllChunks(_)
AllChunks(n) == IF n = 0 THEN <<>> ELSE AllChunks(n - 1) \o Documents(n)

\* C27: within one call the document store is written at most once; it is
\* written only in a step taken when every path of the batch has its result,
\* what is written is the list of all chunks of the batch, and nothing is
\* written when the batch produced no chunk.
C27_StoredOnceAtEnd ==
    /\ [](/\ Len(vector_store) <= 1
          /\ vector_store # <<>> =>
                /\ batch.pc = "returned"
                /\ vector_store[1] # <<>>
                /\ vector_store[1] = AllChunks(Len(file_paths))
          /\ batch.pc = "returned" =>
                Len(vector_store) = IF AllChunks(Len(file_paths)) = <<>> THEN 0 ELSE 1)
    /\ [][vector_store' # vector_store =>
             /\ DOMAIN results = DOMAIN file_paths
             /\ \A i \in DOMAIN file_paths : results[i] # None]_vars

\* a batch of a two-chunk file, a one-chunk file and a file that is not text
\* has been stored
C27_Witness ==
    /\ batch.pc = "returned"
    /\ Len(vector_store) = 1
    /\ Len(vector_store[1]) = 3
    /\ \E i \in DOMAIN file_paths : file_paths[i] = "nontext"

\* C28: when the document store rejects the write of a batch, the call still
\* returns, with success false and with the tallies the batch has whatever the
\* store answers: documents_processed is the number of chunks of the batch and
\* documents_failed the number of paths not processed successfully.
C28_StorageFailureKeepsStats ==
    (batch.pc = "returned" /\ file_paths # <<>>) =>
        LET r == batch.result IN
        /\ r.documents_processed = Len(AllChunks(Len(file_paths)))
        /\ r.documents_failed = Len(file_paths) - Cardinality(Succeeding)
        /\ r.error_message # None =>
              /\ r.success = FALSE
              /\ vector_store = <<AllChunks(Len(file_paths))>>
        /\ r.error_message = None =>
              r.success = (Succeeding # {})

\* the store has rejected the chunks of a batch in which one path failed
C28_Witness ==
    /\ batch.pc = "returned"
    /\ batch.result.error_message # None
    /\ batch.result.success = FALSE
    /\ batch.result.documents_processed >= 2
    /\ batch.result.documents_failed = 1

\* C29 as stated: the call on an empty list of paths ends by raising an error
\* to its caller, having processed nothing and written nothing.
C29_EmptyBatchRaises ==
    (file_paths = <<>> /\ batch.pc # "called") =>
        /\ batch.pc = "raised"
        /\ child = <<>>
        /\ results = <<>>
        /\ vector_store = <<>>

\* C29 amended: the call on an empty list of paths returns to its caller, at
\* once, a failed outcome (success false, both counts zero, the message "No
\* files provided") instead of raising; it has processed nothing and written
\* nothing.
C29_EmptyBatchFails ==
    (file_paths = <<>> /\ batch.pc # "called") =>
        /\ batch.pc = "returned"
        /\ batch.result = ProcessingResult(FALSE, 0, 0, Some("No files provided"))
        /\ child = <<>>
        /\ results = <<>>
        /\ vector_store = <<>>

\* the call on an empty list has ended
C29_Witness ==
    /\ file_paths = <<>>
    /\ batch.pc \in {"returned", "raised"}

\* FileProcessingStats as process_uploaded_file_bytes builds it from the
\* ProcessingResult r of the batch runner, for `total` items
FileProcessingStats(total, r) ==
    [total_files |-> total,
     processed_files |-> r.documents_processed,
     skipped_files |-> 0,
     failed_files |-> r.documents_failed]

\* the paths of the batch that name a file without a text extension
NonText == {i \in DOMAIN file_paths : file_paths[i] = "nontext"}

\* C30: for a batch made of text files and files without a text extension, at
\* least one of each (a.py and b.png), the final statistics count the files
\* without a text extension as skipped and not as failed, and processed_files
\* is the number of chunks of the text files.
C30_NonTextCountedAsSkipped ==
    (/\ batch.pc = "returned"
     /\ Succeeding # {}
     /\ NonText # {}
     /\ Succeeding \cup NonText = DOMAIN file_paths) =>
        LET stats == FileProcessingStats(Len(file_paths), batch.result) IN
        /\ stats.skipped_files = Cardinality(NonText)
        /\ stats.failed_files = 0
        /\ stats.processed_files = Len(AllChunks(Len(file_paths)))

\* C31: every per-file operation ends by returning a result to the batch
\* runner, and the result carries the path it was called with; for a file
\* without a text extension, a file over the size limit, a load that yields
\* nothing and an exception in the split, the result has success false, no
\* chunks and an error message.
C31_ProcessNeverRaises ==
    \A i \in DOMAIN results :
        /\ child[i].pc = "done" <=> results[i] # None
        /\ results[i] # None =>
              LET r == results[i][1] IN
              /\ r.file_path = i
              /\ file_paths[i] \notin TextKinds =>
                    /\ r.success = FALSE
                    /\ r.documents = <<>>
                    /\ r.error_message # None
              /\ file_paths[i] \in TextKinds =>
                    /\ r.success = TRUE
                    /\ r.documents # <<>>

\* an oversized file, a file that cannot be loaded and a file whose split
\* raises have all been through the operation
C31_Witness ==
    \E i, j, k \in DOMAIN results :
        /\ file_paths[i] = "toolarge" /\ results[i] # None
        /\ file_paths[j] = "unreadable" /\ results[j] # None
        /\ file_paths[k] = "error" /\ results[k] # None

\* C32: every submission has scratch directories of its own, and a scratch
\* directory of a submission that is still Pending or Running is removed only
\* by a step of that submission's own task, never by another operation.
C32_ScratchNotShared ==
    /\ [](\A t, u \in DOMAIN tasks :
             t # u => {WorkDir(t), BytesDir(t)} \cap {WorkDir(u), BytesDir(u)} = {})
    /\ [][\A t \in DOMAIN tasks :
             \A d \in {WorkDir(t), BytesDir(t)} :
                (/\ tasks[t].status \in {PENDING, RUNNING}
                 /\ d \in scratch
                 /\ d \notin scratch')
                    => co'[t] # co[t]]_vars

\* C33: admission is first come, first served: a task that waits for a slot
\* becomes Running only when no task submitted before it is still waiting,
\* cancelled tasks aside.
C33_FifoAdmission ==
    [][\A a, b \in DOMAIN tasks :
          (/\ a < b
           /\ co[b].pc = "sem_wait"
           /\ tasks[b].status = PENDING
           /\ tasks'[b].status = RUNNING)
              => ~(co[a].pc = "sem_wait" /\ ~CancelPending(a))]_vars

\* two tasks have queued behind the saturated gate; the one submitted first
\* is Running now and the other still waits
C33_Witness ==
    \E r, a, b \in DOMAIN tasks :
        /\ r < a /\ a < b
        /\ tasks[r].status \in Terminal
        /\ tasks[a].status = RUNNING
        /\ co[b].pc = "sem_wait"
        /\ co[b].fut = "pending"

\* C34: the steps of one cycle of process_repository come in order: the clone
\* starts only in a step that holds the lock and has removed the stale tree;
\* the processing of the files starts only from the clone, when the clone has
\* left a tree; a cycle whose clone ends without a tree ends there, with an
\* error raised to its caller, and a cycle that has ended takes no further step.
C34_CycleOrder ==
    [][\A o \in DOMAIN repo_ops :
          repo_ops[o].kind = "process" =>
             LET p == repo_ops[o]
                 q == repo_ops'[o]
                 d == RepoDir("process")
             IN  /\ (p.pc # "cloning" /\ q.pc = "cloning") =>
                       /\ p.pc \in {"created", "lock_wait"}
                       /\ d \notin repo_tree'
                       /\ clone_lock'.locked
                 /\ (p.pc # "processing" /\ q.pc = "processing") =>
                       /\ p.pc = "cloning"
                       /\ d \in repo_tree
                 /\ (p.pc = "cloning" /\ q.pc = "done" /\ ~p.must_cancel
                     /\ d \notin repo_tree) =>
                       q.exit = "raised"
                 /\ p.pc = "done" => q.pc = "done"]_vars

\* the clone of one cycle has failed, and the next cycle is processing the
\* files of its clone
C34_Witness ==
    \E o, n \in DOMAIN repo_ops :
        /\ repo_ops[o].kind = "process"
        /\ ValidateGitUrl(repo_ops[o].url)
        /\ repo_ops[o].pc = "done"
        /\ repo_ops[o].exit = "raised"
        /\ repo_ops[n].kind = "process"
        /\ repo_ops[n].pc = "processing"

\* C35: at every point between two steps, the ids in _running_tasks are
\* exactly the ids of the records whose status is Pending or Running.
C35_LiveEntryIffNotTerminal ==
    \A t \in TaskIds :
        t \in running_tasks
            <=> (t \in DOMAIN tasks /\ tasks[t].status \in {PENDING, RUNNING})

\* a terminal task without an entry, next to a task that was cancelled before
\* its first step and keeps both its Pending record and its entry
C35_Witness ==
    \E t, u \in DOMAIN tasks :
        /\ tasks[t].status \in Terminal
        /\ t \notin running_tasks
        /\ tasks[u].status = PENDING
        /\ co[u].pc = "done"
        /\ u \in running_tasks

\* C36: in every reachable state the number of Running tasks plus the number
\* of free slots of the admission gate equals N.
C36_RunningPlusFree ==
    LET running == {t \in DOMAIN tasks : tasks[t].status = RUNNING}
    IN  Cardinality(running) + semaphore_value = MaxConcurrentTasks

\* C36, amended: in every reachable state the number of Running tasks, plus
\* the number of free slots, plus the number of slots that a release has
\* handed to a waiting task which has not resumed yet, equals N.
C36_SlotsConserved ==
    LET running == {t \in DOMAIN tasks : tasks[t].status = RUNNING}
        handed == {t \in DOMAIN co : co[t].pc = "sem_wait" /\ co[t].fut = "result"}
    IN  Cardinality(running) + semaphore_value + Cardinality(handed)
            = MaxConcurrentTasks

\* a task has ended and its slot is in the hands of a waiter still Pending
C36_Witness ==
    \E t, u \in DOMAIN tasks :
        /\ tasks[t].status \in Terminal
        /\ co[t].exit # "none"
        /\ co[u].pc = "sem_wait"
        /\ co[u].fut = "result"
        /\ tasks[u].status = PENDING
        /\ semaphore_value = 0

\* C37: a clone thread started by a process_repository cycle runs only while
\* that cycle holds the lock; no cycle is past its lock acquisition while the
\* clone thread of an earlier cycle is still running.
C37_NoCloneAfterRelease ==
    \A o \in DOMAIN repo_ops :
        (repo_ops[o].kind = "process" /\ repo_ops[o].thread = "running")
            => /\ repo_ops[o].pc = "cloning"
               /\ clone_lock.locked
               /\ \A p \in DOMAIN repo_ops \ {o} :
                     repo_ops[p].kind = "process"
                         => repo_ops[p].pc \notin {"cloning", "processing"}

\* C38: a file-batch unit of work with in-memory items reaches its on-disk
\* items only from the batch of the in-memory items; when the processing of
\* the in-memory items raises, the task ends Failed in that step with its
\* scratch directories removed, and an ended unit of work never runs again,
\* so the on-disk items are never processed.
C38_BytesBeforePaths ==
    [][\A t \in DOMAIN co :
          unit[t].kind = "files" =>
             /\ (unit[t].items /\ co[t].pc # "paths_batch"
                    /\ co'[t].pc = "paths_batch")
                   => co[t].pc = "bytes_batch"
             /\ (/\ co[t].pc \in {"bytes_save", "bytes_batch"}
                 /\ BatchRaises(t) \/ (BytesSaved(t) /\ co'[t].pc # "bytes_batch"))
                   => /\ co'[t].pc = "done"
                      /\ co'[t].exit = "raised"
                      /\ tasks'[t].status = FAILED
                      /\ WorkDir(t) \notin scratch'
                      /\ BytesDir(t) \notin scratch'
             /\ co[t].pc = "done" => co'[t] = co[t]]_vars

\* a submission with items in memory and on disk whose in-memory items could
\* not be saved: Failed, its directory gone, its on-disk items untouched
C38_Witness ==
    \E t \in DOMAIN tasks :
        /\ unit[t].kind = "files"
        /\ unit[t].items
        /\ unit[t].paths
        /\ co[t].pc = "done"
        /\ co[t].exc = Some(SaveError)
        /\ tasks[t].status = FAILED
        /\ WorkDir(t) \notin scratch

\* ------------------------------------------------- _bg_worker and the batch runner
\* what the saved files of an upload are: readable text, or a file whose load fails
UploadKinds == {"text", "unreadable"}

\* task t awaits the call of process_files_concurrent it has made
AwaitsBatch(t) == co[t].pc \in BatchStages /\ co[t].fut = "batch"

\* process_uploaded_file_bytes / process_uploaded_file_paths call
\* process_files_concurrent on their saved paths, never on an empty list
BatchCall(t) ==
    /\ t \in DOMAIN co
    /\ co[t].pc \in BatchStages
    /\ co[t].fut = "none"
    /\ ~co[t].must_cancel
    /\ \E n \in 1..MaxFiles : file_paths' \in [1..n -> UploadKinds]
    /\ batch' = [pc |-> "called"]
    /\ child' = <<>>
    /\ results' = <<>>
    /\ file_semaphore' = [value |-> 0, waiters |-> <<>>]
    /\ co' = [co EXCEPT ![t].fut = "batch"]
    /\ UNCHANGED <<tasks, running_tasks, semaphore_value, semaphore_waiters, unit,
                   scratch, next_id, now, vector_store, other_vars, router_vars>>

\* the helper raising on a batch outcome with success=false
UploadedFilesAnswerChecked(total, r) ==
    IF r.success THEN Some(FileProcessingStats(total, r)) ELSE None

\* what the helper hands to _bg_worker for the outcome r of the batch runner:
\* the statistics, whatever r.success is (None: it raises)
UploadedFilesAnswer(total, r) == Some(FileProcessingStats(total, r))

\* process_files_concurrent has returned to the helper task t awaits it in
UploadBatchReturns(t) ==
    /\ t \in DOMAIN co
    /\ AwaitsBatch(t)
    /\ batch.pc = "returned"
    /\ IF UploadedFilesAnswer(Len(file_paths), batch.result) # None
       THEN BatchReturns(t)
       ELSE BatchRaises(t)

\* POST /process-files by a client that submits its uploads one after another:
\* the task of the previous upload has ended
NextUpload ==
    /\ \A t \in DOMAIN co : co[t].pc = "done"
    /\ \E u \in FileUnits : CreateTaskBelow(u, MaxUploads)
    /\ UNCHANGED router_vars

\* the registry driven by the upload endpoint, one upload at a time, each batch
\* stage of the task running the batch runner
UploadNext ==
    \/ NextUpload
    \/ \E t \in 1..MaxUploads : ExecuteTaskStart(t)
    \/ \E t \in 1..MaxUploads : BytesSaved(t)
    \/ \E t \in 1..MaxUploads : BatchCall(t)
    \/ ProcessFilesConcurrent
    \/ \E i \in 1..MaxFiles : FileStart(i)
    \/ \E i \in 1..MaxFiles : FileAcquired(i)
    \/ \E i \in 1..MaxFiles : FileLoaded(i)
    \/ \E i \in 1..MaxFiles : FileSplit(i)
    \/ Aggregate
    \/ \E t \in 1..MaxUploads : UploadBatchReturns(t)
    \/ \E t \in 1..MaxUploads : FilesCancelled(t)
    \/ \E t \in 1..MaxUploads : CancelTask(t)

UploadSpec == Init /\ [][UploadNext]_vars

\* C39: when the batch runner hands success=false to the helper of a
\* file-batch task, no step makes the task Failed, and the step in which the
\* unit of work ends (no cancellation pending) makes it Completed with the
\* unit of work having returned.
C39_FailedOutcomeCompletes ==
    [][\A t \in DOMAIN co :
          (AwaitsBatch(t) /\ batch.pc = "returned" /\ ~batch.result.success)
             => /\ tasks'[t].status # FAILED
                /\ (co'[t].pc = "done" /\ ~co[t].must_cancel)
                      => /\ tasks'[t].status = COMPLETED
                         /\ co'[t].exit = "returned"]_vars

\* a task that is Completed although its last batch ended with success=false
C39_Witness ==
    \E t \in DOMAIN tasks :
        /\ unit[t].kind = "files"
        /\ tasks[t].status = COMPLETED
        /\ co[t].exit = "returned"
        /\ batch.pc = "returned"
        /\ ~batch.result.success

\* ------------------------------------------------- get_service_stats
\* the dictionary get_service_stats returns
GetServiceStats ==
    [total_tasks |-> Cardinality(DOMAIN tasks),
     running_tasks |-> Cardinality(running_tasks),
     status_counts |->
        [st \in {tasks[t].status : t \in DOMAIN tasks} |->
            Cardinality({t \in DOMAIN tasks : tasks[t].status = st})],
     max_concurrent |-> semaphore_value + Cardinality(running_tasks),
     available_slots |-> semaphore_value]

\* C40: in every reachable state get_service_stats reports max_concurrent = N,
\* running_tasks = the number of records with status Running, and
\* available_slots = N minus that number.
C40_StatsMatchGate ==
    LET running == Cardinality({t \in DOMAIN tasks : tasks[t].status = RUNNING})
    IN  /\ GetServiceStats.max_concurrent = MaxConcurrentTasks
        /\ GetServiceStats.running_tasks = running
        /\ GetServiceStats.available_slots = MaxConcurrentTasks - running

====
